---- MODULE Spec2Model ----
(***************************************************************************)
(* LRms: LoRa radio module (RYLR993 / RYLR998) driven over a line-oriented  *)
(* serial AT protocol.  The module models                                   *)
(*   - the frame codec (send encoding, inbound line decoding, relay),       *)
(*   - the variant-specific configuration handshake of every role,          *)
(*   - the beacon master session: UI thread, beacon thread, poll thread.    *)
(* Text is a sequence of characters; a character is a one-element string    *)
(* token.  Bytes on the wire are tokens too: an ASCII byte is written as    *)
(* its character, a non-ASCII byte as "0x..".                               *)
(***************************************************************************)
EXTENDS Integers, Sequences, FiniteSets, TLC

VARIABLES
    op,         \* codec: which pure operation is applied to the input
    input,      \* codec: the text / line handed to the operation
    result,     \* codec: what the operation returned (or that it raised)
    cpc,        \* codec: "start" before the operation ran, "done" after
    wire,       \* the writes issued on the transport, in order: [t, bytes]
    clock,      \* time in seconds
    role,       \* which program runs: "src", "beaconmaster", "messenger", "repeater"
    variant,    \* device_type
    hpc,        \* handshake: "idle", "write", "settle", "drain", "done", "failed"
    hstep,      \* handshake: index of the command being written
    replies,    \* handshake: response lines the module has emitted so far
    drained,    \* handshake: response lines the drain has read and discarded
    rx,         \* lines buffered at the serial port, oldest first: [line, origin]
    ui,         \* UI (coordinator) thread position
    bpc,        \* beacon thread position
    ppc,        \* poll thread position
    pn,         \* poll thread: lines yielded by the current read_serial() pass
    stop,       \* stop_event
    isOpen,     \* conn.is_open
    closes,     \* how often the underlying conn.close() ran
    output_buffer, \* deque(maxlen=max_lines) of log entries
    beacon_text,
    user_input,
    input_active,
    bWake,      \* beacon thread: when its wait(BEACON_INTERVAL) times out
    stopAt,     \* when stop_event was set (-1 before)
    bAfter,     \* frames the beacon thread wrote after stop_event was set
    sentAt,     \* the times at which the beacon thread wrote a frame
    pReadsAfter,  \* readline() calls the poll thread made after stop_event was set
    pPassesAfter, \* read_serial() passes the poll thread began after stop_event was set
    ioClosed,   \* whether a read or write was issued on the closed transport
    baud,       \* the baud rate the port was opened with (0: never opened)
    closeCalls, \* how often close() of the connection object was called
    perr,       \* the exception that ended the poll thread ("none": none)
    nack,       \* whether the module answered a handshake command with an error
    unsent,     \* bytes of the frame being written that are not on the wire yet
    uart,       \* repeater: bytes buffered in the UART receiver
    accum,      \* repeater: received_data, what read_serial() has accumulated
    rpc,        \* repeater: position in run()
    arrived,    \* repeater: the lines the module has sent, in order
    events,     \* repeater: what run() handed to process_message, in order
    inbox,      \* relay: per station, the lines its module has received
    hops,       \* relay: how many rebroadcasts were made
    content,    \* Message.content: [type, value], type "bytes" or "str"
    raised,     \* Message: what the last method call raised ("none": it returned)
    trail,      \* Message: the methods called so far, in order
    max_lines   \* maxlen of the output_buffer deque

codecVars == <<op, input, result, cpc>>
cfgVars == <<role, variant, hpc, hstep, replies, drained>>
uiVars == <<ui, beacon_text, user_input, input_active>>
beaconVars == <<bpc, bWake, bAfter, sentAt>>
pollVars == <<ppc, pn, pReadsAfter, pPassesAfter>>
portVars == <<isOpen, closes, ioClosed>>
auditVars == <<baud, closeCalls, perr, nack>>
repeaterVars == <<uart, accum, rpc, arrived, events>>
relayVars == <<inbox, hops>>
messageVars == <<content, raised, trail>>
auxVars == <<unsent, repeaterVars, relayVars, messageVars, max_lines>>
vars == <<op, input, result, cpc, wire, clock, role, variant, hpc, hstep, replies,
          drained, rx, ui, bpc, ppc, pn, stop, isOpen, closes, output_buffer,
          beacon_text, user_input, input_active, bWake, stopAt, bAfter, sentAt,
          pReadsAfter, pPassesAfter, ioClosed, baud, closeCalls, perr, nack,
          unsent, uart, accum, rpc, arrived, events, inbox, hops,
          content, raised, trail, max_lines>>

----------------------------------------------------------------------------
(* Text helpers: Python str / bytes primitives used by the code.            *)

\* str literal helpers
CR == "\r"
LF == "\n"
CRLF == <<CR, LF>>
Whitespace == {" ", CR, LF, "\t"}

\* text.encode(): UTF-8 encoding of one character.
Utf8(c) ==
    CASE c = "U+00E9" -> <<"0xC3", "0xA9">>
      [] c = "U+20AC" -> <<"0xE2", "0x82", "0xAC">>
      [] OTHER -> <<c>>

RECURSIVE Encode(_)
\* str.encode(): the text's bytes, character after character.
Encode(s) == IF s = <<>> THEN <<>> ELSE Utf8(Head(s)) \o Encode(Tail(s))

DigitChar(d) == CASE d = 0 -> "0" [] d = 1 -> "1" [] d = 2 -> "2" [] d = 3 -> "3"
                  [] d = 4 -> "4" [] d = 5 -> "5" [] d = 6 -> "6" [] d = 7 -> "7"
                  [] d = 8 -> "8" [] d = 9 -> "9"

DigitVal(c) == CASE c = "0" -> 0 [] c = "1" -> 1 [] c = "2" -> 2 [] c = "3" -> 3
                 [] c = "4" -> 4 [] c = "5" -> 5 [] c = "6" -> 6 [] c = "7" -> 7
                 [] c = "8" -> 8 [] c = "9" -> 9 [] OTHER -> -1

RECURSIVE Digits(_)
\* f"{n}" for a natural number: its decimal digits.
Digits(n) == IF n < 10 THEN <<DigitChar(n)>> ELSE Digits(n \div 10) \o <<DigitChar(n % 10)>>

\* sub in s
Contains(s, sub) ==
    \E i \in 0..(Len(s) - Len(sub)) : SubSeq(s, i + 1, i + Len(sub)) = sub

RECURSIVE Split(_, _)
\* s.split(sep) for a one-character separator: always at least one field.
Split(s, sep) ==
    IF \A i \in 1..Len(s) : s[i] # sep
    THEN <<s>>
    ELSE LET i == CHOOSE k \in 1..Len(s) : s[k] = sep /\ \A j \in 1..(k - 1) : s[j] # sep
         IN <<SubSeq(s, 1, i - 1)>> \o Split(SubSeq(s, i + 1, Len(s)), sep)

RECURSIVE LStrip(_)
LStrip(s) == IF s # <<>> /\ Head(s) \in Whitespace THEN LStrip(Tail(s)) ELSE s

RECURSIVE RStrip(_)
RStrip(s) == IF s # <<>> /\ s[Len(s)] \in Whitespace THEN RStrip(SubSeq(s, 1, Len(s) - 1)) ELSE s

\* s.strip()
Strip(s) == RStrip(LStrip(s))

\* string literals of the protocol
AtSend0 == <<"A", "T", "+", "S", "E", "N", "D", "=", "0", ",">>
RCV == <<"+", "R", "C", "V">>
RCVEq == <<"+", "R", "C", "V", "=">>
RPT == <<"R", "P", "T">>
VIA == <<"V", "I", "A">>
SpaceVIA == <<" ", "V", "I", "A">>

----------------------------------------------------------------------------
(* Frame encoding.                                                          *)

\* write_serial(text): the bytes handed to the port.
WriteSerialBytes(text) == Encode(text)

\* The length the sender puts in the frame: len(command), a character count.
CmdLength(command) == Len(command)

\* Commander.send_at_command / MessageHandler.send_message:
\* f"AT+SEND=0,{len(command)},{command}\r\n"
FullCommand(command) == AtSend0 \o Digits(CmdLength(command)) \o <<",">> \o command \o CRLF

\* DeviceConnection.write_serial(text): one write of the encoded text.
WriteSerial(w, text) == Append(w, [t |-> clock, bytes |-> WriteSerialBytes(text)])

----------------------------------------------------------------------------
(* Inbound line decoding.                                                   *)

\* A first byte that starts no character this model encodes.
IsRawByte(b) == b \in {"0xC3", "0xA9", "0xE2", "0x82", "0xAC", "0xFF"}

RECURSIVE DecodeOK(_)
\* Whether bytes.decode('utf-8') succeeds (it raises UnicodeDecodeError otherwise).
DecodeOK(bs) ==
    IF bs = <<>> THEN TRUE
    ELSE IF Len(bs) >= 2 /\ SubSeq(bs, 1, 2) = Utf8("U+00E9") THEN DecodeOK(SubSeq(bs, 3, Len(bs)))
    ELSE IF Len(bs) >= 3 /\ SubSeq(bs, 1, 3) = Utf8("U+20AC") THEN DecodeOK(SubSeq(bs, 4, Len(bs)))
    ELSE IF IsRawByte(Head(bs)) THEN FALSE
    ELSE DecodeOK(Tail(bs))

RECURSIVE Decode(_)
\* bytes.decode('utf-8') of bytes that decode.
Decode(bs) ==
    IF bs = <<>> THEN <<>>
    ELSE IF Len(bs) >= 2 /\ SubSeq(bs, 1, 2) = Utf8("U+00E9")
         THEN <<"U+00E9">> \o Decode(SubSeq(bs, 3, Len(bs)))
    ELSE IF Len(bs) >= 3 /\ SubSeq(bs, 1, 3) = Utf8("U+20AC")
         THEN <<"U+20AC">> \o Decode(SubSeq(bs, 4, Len(bs)))
    ELSE <<Head(bs)>> \o Decode(Tail(bs))

\* Results of a decoding operation.  kind: "None" (messenger returns None),
\* "message" (messenger returns the dict), "IndexError" / "UnicodeDecodeError"
\* (the call raised), "ignored" / "nonmessage" / "malformed" / "repeated"
\* (the repeater's four return strings).
Res(kind, sender, text) == [kind |-> kind, sender |-> sender, text |-> text]
Raised == {"IndexError", "UnicodeDecodeError"}

\* messenger MessageHandler.parse_received_message(received_data: str)
ParseReceivedMessage(received_data) ==
    IF ~Contains(received_data, RCV) THEN Res("None", <<>>, <<>>)
    ELSE LET data_parts == Split(received_data, ",")
             first == Split(data_parts[1], "=")
         IN IF Len(first) < 2 THEN Res("IndexError", <<>>, <<>>)
            ELSE IF Len(data_parts) < 5 THEN Res("IndexError", <<>>, <<>>)
            ELSE IF Contains(data_parts[3], RPT) THEN Res("None", <<>>, <<>>)
            ELSE Res("message", first[2], data_parts[3])

\* s.startswith(sub)
StartsWith(s, sub) == Len(s) >= Len(sub) /\ SubSeq(s, 1, Len(sub)) = sub

\* a loop guard that never fires
IsRepeatedNever(received_data) == FALSE

\* a loop guard that looks for the letters R, P, T in this order, adjacent or not
IsRepeatedLoose(received_data) ==
    \E i, j, k \in 1..Len(received_data) :
        /\ i < j /\ j < k
        /\ received_data[i] = "R" /\ received_data[j] = "P" /\ received_data[k] = "T"

\* the loop guard of process_message: b"RPT" in received_data
IsRepeated(received_data) == Contains(received_data, RPT)

\* repeater: the tagged frame built for a received message
RepeatedMessage(message_text, sender_id, station_id) ==
    LET total_chars == Len(message_text) + Len(sender_id) + Len(SpaceVIA) + Len(station_id)
    IN AtSend0 \o Digits(total_chars) \o <<",">> \o message_text \o <<" ">>
         \o sender_id \o VIA \o station_id \o CRLF

\* repeater MessageHandler.process_message(received_data: bytes): the result,
\* with the frame it writes (if any) in text.
ProcessMessage(received_data, station_id) ==
    IF IsRepeated(received_data) THEN Res("ignored", <<>>, <<>>)
    ELSE IF ~DecodeOK(received_data) THEN Res("UnicodeDecodeError", <<>>, <<>>)
    ELSE LET decoded_data == Strip(Decode(received_data))
             parts == Split(decoded_data, ",")
             first == Split(parts[1], "=")
         IN IF ~Contains(decoded_data, RCVEq) THEN Res("nonmessage", <<>>, decoded_data)
            ELSE IF Len(parts) < 3 THEN Res("malformed", <<>>, decoded_data)
            ELSE IF Len(first) < 2 THEN Res("IndexError", <<>>, <<>>)
            ELSE Res("repeated", first[2], RepeatedMessage(Strip(parts[3]), first[2], station_id))

----------------------------------------------------------------------------
(* Bounds of the model.                                                     *)

\* longest text handed to a send operation
MaxText == 3
\* most comma-separated fields after the first one in an inbound line
MaxFields == 4
\* max_lines of the output log: 100 in the code, scaled down here
MaxLines == 1

----------------------------------------------------------------------------
(* Codec specification: each pure operation applied to one bounded input.   *)

RECURSIVE SeqsUpTo(_, _)
SeqsUpTo(S, n) ==
    IF n = 0 THEN {<<>>}
    ELSE LET shorter == SeqsUpTo(S, n - 1)
         IN shorter \cup {Append(x, c) : x \in shorter, c \in S}

RECURSIVE Join(_)
\* ",".join(fields)
Join(fields) ==
    IF fields = <<>> THEN <<>>
    ELSE IF Len(fields) = 1 THEN fields[1]
    ELSE fields[1] \o <<",">> \o Join(Tail(fields))

\* characters a user can put in a text
TextChars == {"A", "U+00E9", "U+20AC"}
Texts == SeqsUpTo(TextChars, MaxText)

\* inbound lines: a first field and up to MaxFields further fields
FirstFields == { RCVEq \o <<"1">>, RCV, <<"O", "K">>, <<"x">>, <<"x">> \o RPT }
OtherFields == { <<"5">>, <<"H", "I">>, RCVEq \o <<"7">>, RPT }
FieldLines == { Join(<<f>> \o rest) : f \in FirstFields, rest \in SeqsUpTo(OtherFields, MaxFields) }

\* the text of a notification line '+RCV=<addr>,<len>,<payload>,<rssi>,<snr>'
RcvText(addr, len, payload) ==
    RCVEq \o addr \o <<",">> \o Digits(len) \o <<",">> \o payload
        \o <<",", "-", "8", "0", ",", "9">>

HELLO_WORLD == <<"H", "E", "L", "L", "O", " ", "W", "O", "R", "L", "D">>
STARTED == <<"S", "T", "A", "R", "T", "E", "D">>
CORRUPTED == <<"C", "O", "R", "R", "U", "P", "T", "E", "D">>

\* notification lines with whole-word payloads, as the module sends them
SampleLines ==
    { RcvText(<<"5">>, 11, HELLO_WORLD) \o CRLF,
      RcvText(<<"5">>, 7, STARTED) \o CRLF,
      RcvText(<<"5">>, 9, STARTED \o CRLF) \o CRLF,
      RcvText(<<"5">>, 9, CORRUPTED) \o CRLF,
      RcvText(<<"5">>, 5, <<"H", "I", " ">> \o RPT) \o CRLF,
      RcvText(<<"5">>, 3, <<" ", "H", "I">>) \o CRLF,
      RcvText(<<"5">>, 2, <<"U+00E9">>) \o CRLF }

Lines == FieldLines \cup SampleLines

\* bytes on the port that are no UTF-8 text
NoiseLines == { <<"0xFF">> \o CRLF, RcvText(<<"5">>, 1, <<"0xFF">>) \o CRLF }

\* characters of a payload sent and echoed back, and the sender's address
PayloadChars == {"A", ",", " ", "U+00E9", "R", "P", "T"}
Payloads == SeqsUpTo(PayloadChars, MaxText)
Addrs == {"0", "5"}
RoundTrips == { <<a>> \o p : a \in Addrs, p \in Payloads }

Ops == {"send_at_command", "send_message", "parse_received_message", "process_message",
        "round_trip_parse", "round_trip_process"}
InputsOf(o) ==
    IF o \in {"send_at_command", "send_message"} THEN Texts
    ELSE IF o = "parse_received_message" THEN Lines
    ELSE IF o = "process_message" THEN { Encode(l) : l \in Lines } \cup NoiseLines
    ELSE RoundTrips

\* the repeater's station id: MessageHandler(self.device_connection, "100")
StationId == <<"1", "0", "0">>

sessionIdle ==
    /\ ui = "off" /\ bpc = "off" /\ ppc = "off" /\ pn = 0 /\ stop = FALSE
    /\ isOpen = FALSE /\ closes = 0 /\ output_buffer = <<>>
    /\ beacon_text = <<>> /\ user_input = <<>> /\ input_active = FALSE
    /\ bWake = 0 /\ stopAt = -1 /\ bAfter = 0 /\ pReadsAfter = 0 /\ pPassesAfter = 0
    /\ ioClosed = FALSE /\ sentAt = {}

cfgIdle ==
    /\ role = "none" /\ variant = "none" /\ hpc = "idle" /\ hstep = 0
    /\ replies = 0 /\ drained = 0

auditIdle == baud = 0 /\ closeCalls = 0 /\ perr = "none" /\ nack = FALSE

messageIdle == content = <<>> /\ raised = "none" /\ trail = <<>>

auxIdle ==
    /\ unsent = <<>>
    /\ uart = <<>> /\ accum = <<>> /\ rpc = "off" /\ arrived = <<>> /\ events = <<>>
    /\ inbox = <<>> /\ hops = 0
    /\ messageIdle /\ max_lines = MaxLines

codecIdle == op = "none" /\ input = <<>> /\ result = Res("none", <<>>, <<>>) /\ cpc = "off"

sessionVars == <<rx, ui, bpc, ppc, pn, stop, isOpen, closes, output_buffer,
                 beacon_text, user_input, input_active, bWake, stopAt, bAfter, sentAt,
                 pReadsAfter, pPassesAfter, ioClosed>>

InitCodec ==
    /\ op \in Ops
    /\ input \in InputsOf(op)
    /\ result = Res("none", <<>>, <<>>)
    /\ cpc = "start"
    /\ wire = <<>> /\ clock = 0 /\ rx = <<>>
    /\ cfgIdle /\ sessionIdle /\ auditIdle
    /\ auxIdle

\* Commander.send_at_command(command)
SendAtCommand ==
    /\ cpc = "start" /\ op = "send_at_command"
    /\ wire' = WriteSerial(wire, FullCommand(input))
    /\ result' = Res("sent", <<>>, FullCommand(input))
    /\ cpc' = "done"
    /\ UNCHANGED <<op, input, clock, cfgVars, sessionVars, auditVars, auxVars>>

\* messenger MessageHandler.send_message(message)
SendMessage ==
    /\ cpc = "start" /\ op = "send_message"
    /\ wire' = WriteSerial(wire, FullCommand(input))
    /\ result' = Res("sent", <<>>, input)
    /\ cpc' = "done"
    /\ UNCHANGED <<op, input, clock, cfgVars, sessionVars, auditVars, auxVars>>

\* messenger: parse_received_message applied to a line read from the port
DoParseReceivedMessage ==
    /\ cpc = "start" /\ op = "parse_received_message"
    /\ result' = ParseReceivedMessage(input)
    /\ cpc' = "done"
    /\ UNCHANGED <<op, input, wire, clock, cfgVars, sessionVars, auditVars, auxVars>>

\* repeater: process_message applied to the bytes read from the port
DoProcessMessage ==
    /\ cpc = "start" /\ op = "process_message"
    /\ LET r == ProcessMessage(input, StationId)
       IN /\ result' = r
          /\ wire' = IF r.kind = "repeated" THEN WriteSerial(wire, r.text) ELSE wire
    /\ cpc' = "done"
    /\ UNCHANGED <<op, input, clock, cfgVars, sessionVars, auditVars, auxVars>>

\* The bytes of a frame 'AT+SEND=0,<len>,<payload>\r\n' from the first comma
\* of its body on: ',<payload>' with the payload as it was written.
SentTail(bytes) ==
    LET body == SubSeq(bytes, Len(AtSend0) + 1, Len(bytes) - 2)
        k == CHOOSE i \in 1..Len(body) : body[i] = "," /\ \A j \in 1..(i - 1) : body[j] # ","
    IN SubSeq(body, k, Len(body))
\* ... and its length field, as written
SentLen(bytes) ==
    LET body == SubSeq(bytes, Len(AtSend0) + 1, Len(bytes) - 2)
        k == CHOOSE i \in 1..Len(body) : body[i] = "," /\ \A j \in 1..(i - 1) : body[j] # ","
    IN SubSeq(body, 1, k - 1)

\* The receiving module's notification for a frame sent by address addr:
\* '+RCV=<addr>,<len>,<payload>,<rssi>,<snr>\r\n', in bytes.
Echo(addr, bytes) ==
    Encode(RCVEq \o <<addr>>) \o <<",">> \o SentLen(bytes) \o SentTail(bytes)
        \o <<",", "-", "8", "0", ",", "9">> \o CRLF

\* read_serial(): conn.readline().decode('utf-8').strip() of a line that decodes
ReadLine(bytes) == Strip(Decode(bytes))

\* send_at_command(payload) on one station, the frame echoed to a messenger,
\* which reads the line and parses it
RoundTripParse ==
    /\ cpc = "start" /\ op = "round_trip_parse"
    /\ LET bytes == WriteSerialBytes(FullCommand(Tail(input)))
       IN /\ wire' = WriteSerial(wire, FullCommand(Tail(input)))
          /\ result' = ParseReceivedMessage(ReadLine(Echo(Head(input), bytes)))
    /\ cpc' = "done"
    /\ UNCHANGED <<op, input, clock, cfgVars, sessionVars, auditVars, auxVars>>

\* send_at_command(payload) on one station, the frame echoed to a repeater,
\* which processes the bytes (the frame it writes in turn is in the result)
RoundTripProcess ==
    /\ cpc = "start" /\ op = "round_trip_process"
    /\ LET bytes == WriteSerialBytes(FullCommand(Tail(input)))
       IN /\ wire' = WriteSerial(wire, FullCommand(Tail(input)))
          /\ result' = ProcessMessage(Echo(Head(input), bytes), StationId)
    /\ cpc' = "done"
    /\ UNCHANGED <<op, input, clock, cfgVars, sessionVars, auditVars, auxVars>>

NextCodec ==
    \/ SendAtCommand \/ SendMessage \/ DoParseReceivedMessage \/ DoProcessMessage
    \/ RoundTripParse \/ RoundTripProcess

SpecCodec == InitCodec /\ [][NextCodec]_vars

----------------------------------------------------------------------------
(* The serial port and the output log, shared by every role.                *)

\* max_reads of read_serial(): 100 in the code, scaled down here
MaxReads == 2
\* lines the serial port buffers at once
MaxRx == 1
\* response lines the module emits during one handshake
MaxReplies == 1

Min(a, b) == IF a < b THEN a ELSE b

\* a line the module emits: its bytes, and whether the handshake ("hs") or
\* the running session ("run") caused it
RxLine(bytes, origin) == [bytes |-> bytes, origin |-> origin]
OkLine == <<"+", "O", "K">> \o CRLF
ErrLine == <<"+", "E", "R", "R", "=", "1">> \o CRLF
RcvLine == RCVEq \o <<"5", ",", "2", ",", "H", "I", ",", "-", "8", "0", ",", "9">> \o CRLF
BadLine == <<"0xFF">> \o CRLF

\* an output log without a maxlen
AddMessageUnbounded(buf, kind, data, origin) ==
    Append(buf, [t |-> clock, kind |-> kind, data |-> data, origin |-> origin])

\* BeaconMasterUI.add_message: append to deque(maxlen=max_lines)
AddMessage(buf, kind, data, origin) ==
    LET entry == [t |-> clock, kind |-> kind, data |-> data, origin |-> origin]
    IN IF Len(buf) >= max_lines THEN Append(Tail(buf), entry) ELSE Append(buf, entry)

\* stop_event.wait(timeout) entered by a thread: it returns at once when the
\* event is set, and blocks otherwise
WaitEntered == IF stop THEN "check" ELSE "sleeping"

\* a stop event of its own for the poll thread, which nothing ever sets
IsSetPerThread(thread) == IF thread = "poll" THEN FALSE ELSE stop

\* self.stop_event.is_set(): both threads test the one event of the UI object
IsSet(thread) == stop

\* a sleep that stop_event.set() does not interrupt
NotWoken(pc) == pc

\* stop_event.set() wakes a thread blocked in stop_event.wait()
Woken(pc) == IF pc = "sleeping" THEN "check" ELSE pc

\* a read loop without the max_reads bound
ReadMoreUnbounded(n) == TRUE

\* read_serial(): for _ in range(max_reads)
ReadMore(n) == n < MaxReads

----------------------------------------------------------------------------
(* The poll thread: BeaconMasterUI.read_serial over Serial.read_serial.     *)

\* while not self.stop_event.is_set():
PollCheck ==
    /\ ppc = "check"
    /\ IF IsSet("poll") THEN ppc' = "done" /\ pn' = pn
                        ELSE ppc' = "reading" /\ pn' = 0
    /\ UNCHANGED <<auxVars, codecVars, auditVars, cfgVars, uiVars, beaconVars, portVars, wire, clock, rx,
                   stop, output_buffer, stopAt, pReadsAfter, pPassesAfter>>

pollCount ==
    /\ pReadsAfter' = IF stop THEN pReadsAfter + 1 ELSE pReadsAfter
    /\ pPassesAfter' = IF stop /\ pn = 0 THEN pPassesAfter + 1 ELSE pPassesAfter

\* one iteration of read_serial() that yields a line, and the loop body
\* add_message(f"Received: {data}") run on it
PollReadLine ==
    /\ ppc = "reading" /\ isOpen /\ rx # <<>>
    /\ DecodeOK(Head(rx).bytes)
    /\ Strip(Decode(Head(rx).bytes)) # <<>>
    /\ rx' = Tail(rx)
    /\ output_buffer' = AddMessage(output_buffer, "Received",
                                   Strip(Decode(Head(rx).bytes)), Head(rx).origin)
    /\ pn' = pn + 1
    /\ ppc' = IF ReadMore(pn + 1) THEN "reading" ELSE WaitEntered
    /\ pollCount
    /\ UNCHANGED <<auxVars, codecVars, auditVars, cfgVars, uiVars, beaconVars, portVars, wire, clock,
                   stop, stopAt>>

\* one iteration of read_serial() whose readline() times out empty or returns
\* a blank line: break, then stop_event.wait(0.1)
PollReadEmpty ==
    /\ ppc = "reading" /\ isOpen
    /\ \/ rx = <<>> /\ rx' = rx
       \/ /\ rx # <<>> /\ DecodeOK(Head(rx).bytes)
          /\ Strip(Decode(Head(rx).bytes)) = <<>>
          /\ rx' = Tail(rx)
    /\ ppc' = WaitEntered
    /\ pollCount
    /\ UNCHANGED <<auxVars, codecVars, auditVars, cfgVars, uiVars, beaconVars, portVars, wire, clock,
                   stop, output_buffer, stopAt, pn>>

\* one iteration of read_serial() that raises: the port fails
\* (SerialException), the port is closed, or the line is not UTF-8
\* (UnicodeDecodeError); nothing in the thread catches it
PollReadRaises ==
    /\ ppc = "reading"
    /\ \/ isOpen /\ rx' = rx /\ ioClosed' = ioClosed /\ perr' = "SerialException"
       \/ ~isOpen /\ rx' = rx /\ ioClosed' = TRUE /\ perr' = "SerialException"
       \/ /\ isOpen /\ rx # <<>> /\ ~DecodeOK(Head(rx).bytes)
          /\ rx' = Tail(rx) /\ ioClosed' = ioClosed /\ perr' = "UnicodeDecodeError"
    /\ ppc' = "dead"
    /\ pollCount
    /\ UNCHANGED <<auxVars, codecVars, baud, closeCalls, nack, cfgVars, uiVars, beaconVars, isOpen, closes, wire, clock,
                   stop, output_buffer, stopAt, pn>>

\* stop_event.wait(0.1) times out
PollTimeout ==
    /\ ppc = "sleeping"
    /\ ppc' = "check"
    /\ UNCHANGED <<auxVars, codecVars, auditVars, cfgVars, uiVars, beaconVars, portVars, wire, clock, rx,
                   stop, output_buffer, stopAt, pn, pReadsAfter, pPassesAfter>>

\* the radio module delivers a line to the serial port
Arrive ==
    /\ isOpen /\ Len(rx) < MaxRx
    /\ hpc \in {"idle", "done"}
    /\ ui \notin {"idle", "failed"}
    /\ \E bytes \in {RcvLine, OkLine, BadLine} : rx' = Append(rx, RxLine(bytes, "run"))
    /\ UNCHANGED <<auxVars, codecVars, auditVars, cfgVars, uiVars, beaconVars, pollVars, portVars, wire,
                   clock, stop, output_buffer, stopAt>>

----------------------------------------------------------------------------
(* The configuration handshake of every role.                               *)

\* connect(): DeviceConfigurator(device_connection, 867500000, 1, 22, '9,7,1,12')
rf_freq == 867500000
tx_power == 22
lora_params == <<"9", ",", "7", ",", "1", ",", "1", "2">>
\* node_id: 1, and 100 in the repeater's DeviceConnection
NodeId(r) == IF r = "repeater" THEN 100 ELSE 1

AtReset == <<"A", "T", "+", "R", "E", "S", "E", "T">> \o CRLF
AtOpmode == <<"A", "T", "+", "O", "P", "M", "O", "D", "E", "=", "1">> \o CRLF
AtBand == <<"A", "T", "+", "B", "A", "N", "D", "=">> \o Digits(rf_freq) \o CRLF
AtAddress(r) == <<"A", "T", "+", "A", "D", "D", "R", "E", "S", "S", "=">> \o Digits(NodeId(r)) \o CRLF
AtCrfop == <<"A", "T", "+", "C", "R", "F", "O", "P", "=">> \o Digits(tx_power) \o CRLF
AtParameter == <<"A", "T", "+", "P", "A", "R", "A", "M", "E", "T", "E", "R", "=">> \o lora_params \o CRLF

\* a command of the routine: write_serial(text), then Event().wait(settle)
Cmd(text, settle) == [text |-> text, settle |-> settle]

RadioSetup(r) == <<Cmd(AtBand, 1), Cmd(AtAddress(r), 1), Cmd(AtCrfop, 1), Cmd(AtParameter, 1)>>

\* the routine with OPMODE and the second RESET left out
configure_rylr993_single_reset == <<Cmd(AtReset, 2)>> \o RadioSetup("src")

\* DeviceConfigurator.configure_rylr993
configure_rylr993 ==
    <<Cmd(AtReset, 2), Cmd(AtOpmode, 2), Cmd(AtReset, 2)>> \o RadioSetup("src")

\* DeviceConfigurator.configure_rylr998
configure_rylr998 == <<Cmd(AtReset, 2)>> \o RadioSetup("src")

\* beaconmaster DeviceConnection.configure_device: OPMODE and the second
\* RESET are both inside "if self.device_type == 'RYLR993'"
configure_device_beaconmaster(v) ==
    <<Cmd(AtReset, 2)>>
    \o (IF v = "RYLR993" THEN <<Cmd(AtOpmode, 2), Cmd(AtReset, 2)>> ELSE <<>>)
    \o RadioSetup("beaconmaster")

\* messenger and repeater DeviceConnection.configure_device: only OPMODE is
\* inside the "if"; the second RESET is written for either device type
configure_device_messenger(v, r) ==
    <<Cmd(AtReset, 2)>>
    \o (IF v = "RYLR993" THEN <<Cmd(AtOpmode, 2)>> ELSE <<>>)
    \o <<Cmd(AtReset, 2)>>
    \o RadioSetup(r)

\* the routine a role runs for a device type (connect() dispatches in "src")
ConfigureSeq(r, v) ==
    CASE r = "src" -> IF v = "RYLR993" THEN configure_rylr993 ELSE configure_rylr998
      [] r = "beaconmaster" -> configure_device_beaconmaster(v)
      [] OTHER -> configure_device_messenger(v, r)

\* How many buffered lines the routine's last statement reads and discards,
\* of n lines buffered:
\*   src:          self.connection.read_serial()  creates the generator and
\*                 never iterates it, so nothing is read;
\*   beaconmaster, messenger:  for _ in self.read_serial(): pass
\*   repeater:     for _ in range(10): self.uart.readline()
DrainCount(r, n) ==
    CASE r = "src" -> 0
      [] r = "repeater" -> Min(n, 10)
      [] OTHER -> Min(n, MaxReads)

Roles == {"src", "beaconmaster", "messenger", "repeater"}
Variants == {"RYLR993", "RYLR998"}

\* a baud table with one rate for both variants
BaudRateSame(device_type) == 9600

\* baud_rates = {'RYLR993': 9600, 'RYLR998': 115200}
BaudRate(device_type) == IF device_type = "RYLR993" THEN 9600 ELSE 115200

InitConfig ==
    /\ role \in Roles /\ variant \in Variants
    /\ hpc = "idle" /\ hstep = 0 /\ replies = 0 /\ drained = 0
    /\ wire = <<>> /\ clock = 0 /\ rx = <<>>
    /\ codecIdle /\ sessionIdle /\ auditIdle
    /\ auxIdle

\* DeviceConnection(device_type=...): the port is opened
HsOpen ==
    /\ hpc = "idle" /\ role # "none"
    /\ isOpen' = TRUE
    /\ baud' = BaudRate(variant)
    /\ hpc' = "write" /\ hstep' = 1
    /\ UNCHANGED <<auxVars, codecVars, closeCalls, perr, nack, role, variant, replies, drained, uiVars, beaconVars,
                   pollVars, closes, ioClosed, wire, clock, rx, stop, output_buffer, stopAt>>

\* self.connection.write_serial(<command>)
HsWrite ==
    /\ hpc = "write"
    /\ wire' = WriteSerial(wire, ConfigureSeq(role, variant)[hstep].text)
    /\ hpc' = "settle"
    /\ UNCHANGED <<auxVars, codecVars, auditVars, role, variant, hstep, replies, drained, uiVars, beaconVars,
                   pollVars, portVars, clock, rx, stop, output_buffer, stopAt>>

\* write_serial raises SerialException: the routine is abandoned
HsWriteRaises ==
    /\ hpc = "write"
    /\ hpc' = "failed"
    /\ UNCHANGED <<auxVars, codecVars, auditVars, role, variant, hstep, replies, drained, uiVars, beaconVars,
                   pollVars, portVars, wire, clock, rx, stop, output_buffer, stopAt>>

\* threading.Event().wait(settle) / time.sleep(settle); meanwhile the module
\* may answer the command with a response line
HsSettle ==
    /\ hpc = "settle"
    /\ clock' = clock + ConfigureSeq(role, variant)[hstep].settle
    /\ \/ rx' = rx /\ replies' = replies /\ nack' = nack
       \/ /\ replies < MaxReplies
          /\ \E line \in {OkLine, ErrLine} :
                /\ rx' = Append(rx, RxLine(line, "hs"))
                /\ nack' = (nack \/ line = ErrLine)
          /\ replies' = replies + 1
    /\ IF hstep < Len(ConfigureSeq(role, variant))
       THEN hstep' = hstep + 1 /\ hpc' = "write"
       ELSE hstep' = hstep /\ hpc' = "drain"
    /\ UNCHANGED <<auxVars, codecVars, baud, closeCalls, perr, role, variant, drained, uiVars, beaconVars,
                   pollVars, portVars, wire, stop, output_buffer, stopAt>>

\* the routine's last statement, which is to consume the responses
HsDrain ==
    /\ hpc = "drain"
    /\ drained' = DrainCount(role, Len(rx))
    /\ rx' = SubSeq(rx, DrainCount(role, Len(rx)) + 1, Len(rx))
    /\ hpc' = "done"
    /\ UNCHANGED <<auxVars, codecVars, auditVars, role, variant, hstep, replies, uiVars, beaconVars,
                   pollVars, portVars, wire, clock, stop, output_buffer, stopAt>>

\* BeaconMasterUI.run: serial_read_thread.start(), in the roles that have one
CfgStartPoll ==
    /\ hpc = "done" /\ role \in {"src", "beaconmaster"} /\ ppc = "off"
    /\ ppc' = "check"
    /\ UNCHANGED <<auxVars, codecVars, auditVars, cfgVars, uiVars, beaconVars, pn, pReadsAfter, pPassesAfter,
                   portVars, wire, clock, rx, stop, output_buffer, stopAt>>

NextConfig ==
    \/ HsOpen \/ HsWrite \/ HsWriteRaises \/ HsSettle \/ HsDrain \/ CfgStartPoll
    \/ Arrive \/ PollCheck \/ PollReadLine \/ PollReadEmpty \/ PollReadRaises \/ PollTimeout

SpecConfig == InitConfig /\ [][NextConfig]_vars

----------------------------------------------------------------------------
(* The beacon master session: main.py connect / run_ui and BeaconMasterUI.  *)

BEACON_INTERVAL == 60
\* "len(self.user_input) < 50": 50 in the code, scaled down here
InputLimit == 2
\* how many of the latest writes the session keeps in wire
MaxWire == 1

DefaultBeaconText == <<"L", "R", "m", "s", " ", "B", "e", "a", "c", "o", "n">>

\* keys getch() returns: 'q', 'b', Enter (10), Escape (27), Backspace (127), a character
Keys == {"q", "b", "Enter", "Esc", "Backspace", "A"}
\* the keys pressed while the threads of the session are observed
SessionKeys == {"q", "b", "Enter"}

Window(w) == IF Len(w) > MaxWire THEN Tail(w) ELSE w

\* a join that does not wait for the thread
JoinedNoWait(pc) == TRUE

\* a join that returns only for a thread whose function returned
JoinedOnlyReturned(pc) == pc = "done"

\* a close() that closes the handle without looking at is_open
HandleOpenAlways(open) == TRUE

\* close(): the test "if self.conn.is_open"
HandleOpen(open) == open

\* Serial.close(): "if self.conn.is_open: self.conn.close()"
SerialClose ==
    /\ closeCalls' = closeCalls + 1
    /\ IF HandleOpen(isOpen) THEN isOpen' = FALSE /\ closes' = closes + 1
                             ELSE UNCHANGED <<isOpen, closes>>

\* Thread.join() returns once the thread has returned or died
Joined(pc) == pc \in {"done", "dead"}

\* a wait that is one second short of the interval
WaitDeadlineShort(now) == now + BEACON_INTERVAL - 1

\* stop_event.wait(BEACON_INTERVAL) entered at time now times out at
WaitDeadline(now) == now + BEACON_INTERVAL

InitSession ==
    /\ role = "src" /\ variant = "RYLR993"
    /\ hpc = "idle" /\ hstep = 0 /\ replies = 0 /\ drained = 0
    /\ wire = <<>> /\ clock = 0 /\ rx = <<>>
    /\ codecIdle
    /\ ui = "idle" /\ bpc = "off" /\ ppc = "off" /\ pn = 0 /\ stop = FALSE
    /\ isOpen = FALSE /\ closes = 0 /\ output_buffer = <<>>
    /\ beacon_text = DefaultBeaconText /\ user_input = <<>> /\ input_active = FALSE
    /\ bWake = 0 /\ stopAt = -1 /\ bAfter = 0 /\ pReadsAfter = 0 /\ pPassesAfter = 0
    /\ ioClosed = FALSE /\ sentAt = {}
    /\ auditIdle
    /\ auxIdle

\* connect(device_type) returns: the port is open and the routine has run;
\* the responses the routine did not drain are still buffered
Connect ==
    /\ ui = "idle"
    /\ isOpen' = TRUE
    /\ baud' = BaudRate(variant)
    /\ \E n \in 0..MaxReplies :
          /\ replies' = n
          /\ drained' = DrainCount(role, n)
          /\ rx' = [i \in 1..(n - DrainCount(role, n)) |-> RxLine(OkLine, "hs")]
    /\ hpc' = "done" /\ hstep' = Len(ConfigureSeq(role, variant))
    /\ clock' = clock
    /\ ui' = "start"
    /\ UNCHANGED <<auxVars, codecVars, closeCalls, perr, nack, role, variant, beacon_text, user_input, input_active,
                   beaconVars, pollVars, closes, ioClosed, wire, stop,
                   output_buffer, stopAt>>

\* connect(device_type) raises SerialException: serial.Serial() cannot open
\* the port, or a write of the routine fails after it was opened.  Nothing
\* on this path closes the port.
ConnectRaises ==
    /\ ui = "idle"
    /\ isOpen' \in BOOLEAN
    /\ baud' = IF isOpen' THEN BaudRate(variant) ELSE baud
    /\ hpc' = "failed"
    /\ ui' = "failed"
    /\ UNCHANGED <<auxVars, codecVars, closeCalls, perr, nack, role, variant, hstep, replies, drained, beacon_text,
                   user_input, input_active, beaconVars, pollVars, closes, ioClosed,
                   wire, clock, rx, stop, output_buffer, stopAt>>

\* run(): beacon_thread.start()
UiStartBeacon ==
    /\ ui = "start"
    /\ bpc' = "check"
    /\ ui' = "startPoll"
    /\ UNCHANGED <<auxVars, codecVars, auditVars, cfgVars, beacon_text, user_input, input_active, bWake,
                   bAfter, sentAt, pollVars, portVars, wire, clock, rx, stop, output_buffer, stopAt>>

\* run(): serial_read_thread.start()
UiStartPoll ==
    /\ ui = "startPoll"
    /\ ppc' = "check"
    /\ ui' = "loop"
    /\ UNCHANGED <<auxVars, codecVars, auditVars, cfgVars, beacon_text, user_input, input_active,
                   beaconVars, pn, pReadsAfter, pPassesAfter, portVars, wire, clock, rx,
                   stop, output_buffer, stopAt>>

\* a key handler that sends the pending input itself
UiWritesOnKey(w) == WriteSerial(w, FullCommand(user_input))

\* run() / handle_input: the UI thread never calls the commander or
\* write_serial, so a key leaves the port's output as it is
UiWrites(w) == w

\* a length test that lets one more character in
HasRoomAtLimit(text) == Len(text) <= InputLimit

\* handle_input: elif len(self.user_input) < 50
HasRoom(text) == Len(text) < InputLimit

\* one turn of run()'s loop: update(), ch = getch(), handle_input(ch); on
\* 'q' stop_event.set() and break
UiKeyIn(K) ==
    /\ ui = "loop" /\ ~stop
    /\ \E ch \in K :
        IF ch = "q"
        THEN /\ stop' = TRUE /\ stopAt' = clock
             /\ bpc' = Woken(bpc) /\ ppc' = Woken(ppc)
             /\ ui' = "joinBeacon"
             /\ UNCHANGED <<beacon_text, user_input, input_active, output_buffer>>
        ELSE /\ ui' = "loop"
             /\ UNCHANGED <<stop, stopAt, bpc, ppc>>
             /\ IF ch = "b"
                THEN /\ input_active' = ~input_active
                     /\ UNCHANGED <<beacon_text, user_input, output_buffer>>
                ELSE IF ~input_active
                THEN UNCHANGED <<beacon_text, user_input, input_active, output_buffer>>
                ELSE IF ch = "Enter"
                THEN /\ beacon_text' = user_input
                     /\ output_buffer' = AddMessage(output_buffer, "New beacon text set",
                                                    user_input, "ui")
                     /\ user_input' = <<>>
                     /\ input_active' = FALSE
                ELSE IF ch = "Esc"
                THEN /\ input_active' = FALSE /\ user_input' = <<>>
                     /\ UNCHANGED <<beacon_text, output_buffer>>
                ELSE IF ch = "Backspace"
                THEN /\ user_input' = SubSeq(user_input, 1, Len(user_input) - 1)
                     /\ UNCHANGED <<beacon_text, input_active, output_buffer>>
                ELSE /\ user_input' = IF HasRoom(user_input)
                                      THEN Append(user_input, ch) ELSE user_input
                     /\ UNCHANGED <<beacon_text, input_active, output_buffer>>
    /\ wire' = UiWrites(wire)
    /\ UNCHANGED <<auxVars, codecVars, auditVars, cfgVars, bWake, bAfter, sentAt, pn, pReadsAfter, pPassesAfter,
                   portVars, clock, rx>>

UiKey == UiKeyIn(SessionKeys)

\* KeyboardInterrupt in the main thread: run() unwinds without joining the
\* threads and without closing; run_ui catches only SerialException
UiInterrupt ==
    /\ ui \in {"loop", "joinBeacon", "joinPoll"}
    /\ ui' = "interrupted"
    /\ UNCHANGED <<auxVars, codecVars, auditVars, cfgVars, beacon_text, user_input, input_active,
                   beaconVars, pollVars, portVars, wire, clock, rx, stop,
                   output_buffer, stopAt>>

\* run(): beacon_thread.join()
UiJoinBeacon ==
    /\ ui = "joinBeacon" /\ Joined(bpc)
    /\ ui' = "joinPoll"
    /\ UNCHANGED <<auxVars, codecVars, auditVars, cfgVars, beacon_text, user_input, input_active,
                   beaconVars, pollVars, portVars, wire, clock, rx, stop,
                   output_buffer, stopAt>>

\* run(): serial_read_thread.join()
UiJoinPoll ==
    /\ ui = "joinPoll" /\ Joined(ppc)
    /\ ui' = "close"
    /\ UNCHANGED <<auxVars, codecVars, auditVars, cfgVars, beacon_text, user_input, input_active,
                   beaconVars, pollVars, portVars, wire, clock, rx, stop,
                   output_buffer, stopAt>>

\* run(): self.device_connection.close(), which is
\* "if self.conn.is_open: self.conn.close()"
UiClose ==
    /\ ui = "close"
    /\ SerialClose
    /\ ui' = "closed"
    /\ UNCHANGED <<auxVars, codecVars, baud, perr, nack, cfgVars, beacon_text, user_input, input_active,
                   beaconVars, pollVars, ioClosed, wire, clock, rx, stop,
                   output_buffer, stopAt>>

\* send_beacon: while not self.stop_event.is_set():
BeaconCheck ==
    /\ bpc = "check"
    /\ bpc' = IF IsSet("beacon") THEN "done" ELSE "send"
    /\ UNCHANGED <<auxVars, codecVars, auditVars, cfgVars, uiVars, bWake, bAfter, sentAt, pollVars, portVars,
                   wire, clock, rx, stop, output_buffer, stopAt>>

\* a beacon that sends what is being typed
BeaconPayloadPending == user_input

\* send_beacon: the text handed to send_at_command is self.beacon_text, read
\* at the moment of the send
BeaconPayload == beacon_text

\* send_beacon: send_at_command(self.beacon_text), add_message(...), and
\* entering stop_event.wait(BEACON_INTERVAL)
BeaconSend ==
    /\ bpc = "send" /\ isOpen
    /\ wire' = Window(WriteSerial(wire, FullCommand(BeaconPayload)))
    /\ output_buffer' = AddMessage(output_buffer, "Beaconing",
                                   Strip(FullCommand(BeaconPayload)), "beacon")
    /\ bAfter' = IF stop THEN bAfter + 1 ELSE bAfter
    /\ sentAt' = sentAt \cup {clock}
    /\ bWake' = WaitDeadline(clock)
    /\ bpc' = WaitEntered
    /\ UNCHANGED <<auxVars, codecVars, auditVars, cfgVars, uiVars, pollVars, portVars, clock, rx, stop, stopAt>>

\* send_beacon: the write raises (SerialException, or the port is closed);
\* nothing in the thread catches it
BeaconSendRaises ==
    /\ bpc = "send"
    /\ ioClosed' = (ioClosed \/ ~isOpen)
    /\ bpc' = "dead"
    /\ UNCHANGED <<auxVars, codecVars, auditVars, cfgVars, uiVars, bWake, bAfter, sentAt, pollVars, isOpen, closes,
                   wire, clock, rx, stop, output_buffer, stopAt>>

\* send_beacon: stop_event.wait(BEACON_INTERVAL) times out
BeaconTimeout ==
    /\ bpc = "sleeping"
    /\ bpc' = "check"
    /\ UNCHANGED <<auxVars, codecVars, auditVars, cfgVars, uiVars, bWake, bAfter, sentAt, pollVars, portVars,
                   wire, clock, rx, stop, output_buffer, stopAt>>

Next ==
    \/ Connect \/ ConnectRaises
    \/ UiStartBeacon \/ UiStartPoll \/ UiKey \/ UiInterrupt
    \/ UiJoinBeacon \/ UiJoinPoll \/ UiClose
    \/ BeaconCheck \/ BeaconSend \/ BeaconSendRaises \/ BeaconTimeout
    \/ Arrive \/ PollCheck \/ PollReadLine \/ PollReadEmpty \/ PollReadRaises \/ PollTimeout

Spec == InitSession /\ [][Next]_vars

\* The session whose main thread is not interrupted, with the three threads
\* scheduled fairly: the interpreter and the operating system let every
\* thread that can take a step take one eventually.
BeaconThread == BeaconCheck \/ BeaconSend \/ BeaconSendRaises \/ BeaconTimeout
PollThread == PollCheck \/ PollReadLine \/ PollReadEmpty \/ PollReadRaises \/ PollTimeout
UiShutdown == UiJoinBeacon \/ UiJoinPoll \/ UiClose

\* the user presses the quit key and no other
UiQuit == UiKeyIn({"q"})

NextShutdown ==
    \/ Connect
    \/ UiStartBeacon \/ UiStartPoll \/ UiQuit
    \/ UiJoinBeacon \/ UiJoinPoll \/ UiClose
    \/ BeaconCheck \/ BeaconSend \/ BeaconSendRaises \/ BeaconTimeout
    \/ Arrive \/ PollCheck \/ PollReadLine \/ PollReadEmpty \/ PollReadRaises \/ PollTimeout

SpecShutdown ==
    /\ InitSession /\ [][NextShutdown]_vars
    /\ WF_vars(BeaconThread) /\ WF_vars(PollThread) /\ WF_vars(UiShutdown)

----------------------------------------------------------------------------
(* The whole life of one session: connect() runs the routine statement by   *)
(* statement, then run() starts the threads, serves the quit key, joins and *)
(* closes.  The only lines the module sends are its answers to the routine. *)

\* a caller that starts the UI as soon as the port is open
ConfigureReturnedEarly(pc) == pc # "idle"

\* connect() returns, and main() goes on to ui.run(), only after the
\* routine's last statement
ConfigureReturned(pc) == pc = "done"

InitLife ==
    /\ role \in {"src", "beaconmaster"} /\ variant \in Variants
    /\ hpc = "idle" /\ hstep = 0 /\ replies = 0 /\ drained = 0
    /\ wire = <<>> /\ clock = 0 /\ rx = <<>>
    /\ codecIdle
    /\ ui = "idle" /\ bpc = "off" /\ ppc = "off" /\ pn = 0 /\ stop = FALSE
    /\ isOpen = FALSE /\ closes = 0 /\ output_buffer = <<>>
    /\ beacon_text = DefaultBeaconText /\ user_input = <<>> /\ input_active = FALSE
    /\ bWake = 0 /\ stopAt = -1 /\ bAfter = 0 /\ pReadsAfter = 0 /\ pPassesAfter = 0
    /\ ioClosed = FALSE /\ sentAt = {}
    /\ auditIdle
    /\ auxIdle

\* connect() returns the connection; run_ui builds the Commander and the UI
LifeConnected ==
    /\ ui = "idle" /\ ConfigureReturned(hpc)
    /\ ui' = "start"
    /\ UNCHANGED <<auxVars, codecVars, auditVars, cfgVars, beacon_text, user_input, input_active,
                   beaconVars, pollVars, portVars, wire, clock, rx, stop,
                   output_buffer, stopAt>>

\* the quit key is the only key pressed
LifeQuit == UiKeyIn({"q"})

NextLife ==
    \/ HsOpen \/ HsWrite \/ HsWriteRaises \/ HsSettle \/ HsDrain \/ LifeConnected
    \/ UiStartBeacon \/ UiStartPoll \/ LifeQuit \/ UiInterrupt
    \/ UiJoinBeacon \/ UiJoinPoll \/ UiClose
    \/ BeaconCheck \/ BeaconSend \/ BeaconSendRaises \/ BeaconTimeout
    \/ PollCheck \/ PollReadLine \/ PollReadEmpty \/ PollReadRaises \/ PollTimeout

SpecLife == InitLife /\ [][NextLife]_vars

----------------------------------------------------------------------------
(* The session with every key of the keyboard: the UI thread edits and      *)
(* commits the beacon text while the beacon thread sends it.                *)

\* BeaconMasterUI(stdscr, device_connection, commander): the port is open,
\* the module is silent, no thread is started yet
InitInput ==
    /\ role = "src" /\ variant \in Variants
    /\ hpc = "done" /\ hstep = Len(ConfigureSeq(role, variant))
    /\ replies = 0 /\ drained = 0
    /\ wire = <<>> /\ clock = 0 /\ rx = <<>>
    /\ codecIdle
    /\ ui = "start" /\ bpc = "off" /\ ppc = "off" /\ pn = 0 /\ stop = FALSE
    /\ isOpen = TRUE /\ closes = 0 /\ output_buffer = <<>>
    /\ beacon_text = DefaultBeaconText /\ user_input = <<>> /\ input_active = FALSE
    /\ bWake = 0 /\ stopAt = -1 /\ bAfter = 0 /\ pReadsAfter = 0 /\ pPassesAfter = 0
    /\ ioClosed = FALSE /\ sentAt = {}
    /\ baud = BaudRate(variant) /\ closeCalls = 0 /\ perr = "none" /\ nack = FALSE
    /\ auxIdle

\* any key may be pressed
UiAnyKey == UiKeyIn(Keys)

NextInput ==
    \/ UiStartBeacon \/ UiStartPoll \/ UiAnyKey
    \/ UiJoinBeacon \/ UiJoinPoll \/ UiClose
    \/ BeaconCheck \/ BeaconSend \/ BeaconTimeout
    \/ PollCheck \/ PollReadEmpty \/ PollTimeout

SpecInput == InitInput /\ [][NextInput]_vars

----------------------------------------------------------------------------
(* The session at the grain of the port's output: conn.write(bytes) of one  *)
(* frame may reach the port in more than one piece, and the other threads   *)
(* run between the pieces.                                                  *)

\* most frames the beacon thread begins
MaxFrames == 2

\* where a write may be cut: after the header, before the CRLF, or not at all
SplitPoints(bytes) == {Len(AtSend0), Len(bytes) - Len(CRLF), Len(bytes)}

\* frames begun so far: every first piece starts with the header
FramesBegun(w) ==
    Cardinality({i \in 1..Len(w) : StartsWith(w[i].bytes, AtSend0)})

\* send_beacon -> send_at_command -> write_serial: full_command is built and
\* encoded once, and the first piece of it is written
WireSendBegin ==
    /\ bpc = "send" /\ isOpen /\ FramesBegun(wire) < MaxFrames
    /\ LET text == FullCommand(BeaconPayload)
           bytes == WriteSerialBytes(text)
       IN \E k \in SplitPoints(bytes) :
            /\ wire' = Append(wire, [t |-> clock, bytes |-> SubSeq(bytes, 1, k)])
            /\ unsent' = [text |-> text, rest |-> SubSeq(bytes, k + 1, Len(bytes))]
    /\ bpc' = "writing"
    /\ UNCHANGED <<messageVars, max_lines, repeaterVars, relayVars, codecVars, auditVars, cfgVars, uiVars, bWake, bAfter,
                   sentAt, pollVars, portVars, clock, rx, stop, output_buffer, stopAt>>

\* the rest of the frame is written, write_serial and send_at_command
\* return, then add_message(...) and stop_event.wait(BEACON_INTERVAL)
WireSendEnd ==
    /\ bpc = "writing"
    /\ wire' = IF unsent.rest = <<>> THEN wire
               ELSE Append(wire, [t |-> clock, bytes |-> unsent.rest])
    /\ unsent' = <<>>
    /\ output_buffer' = AddMessage(output_buffer, "Beaconing", Strip(unsent.text), "beacon")
    /\ bAfter' = IF stop THEN bAfter + 1 ELSE bAfter
    /\ sentAt' = sentAt \cup {clock}
    /\ bWake' = WaitDeadline(clock)
    /\ bpc' = WaitEntered
    /\ UNCHANGED <<messageVars, max_lines, repeaterVars, relayVars, codecVars, auditVars, cfgVars, uiVars, pollVars,
                   portVars, clock, rx, stop, stopAt>>

NextWire ==
    \/ UiStartBeacon \/ UiStartPoll \/ UiKey
    \/ UiJoinBeacon \/ UiJoinPoll \/ UiClose
    \/ BeaconCheck \/ WireSendBegin \/ WireSendEnd \/ BeaconTimeout
    \/ PollCheck \/ PollReadEmpty \/ PollTimeout

SpecWire == InitInput /\ [][NextWire]_vars

----------------------------------------------------------------------------
(* Two repeaters in range of each other and of one originating node.  Each  *)
(* repeater's module hears every frame the other one sends.                 *)

\* most rebroadcasts followed
MaxHops == 3

\* station ids of the two repeaters; each module's address is its station id
Stations == {StationId, <<"2", "0", "0">>}
OtherStation(s) == CHOOSE o \in Stations : o # s

\* payloads the originating node sends
RelayPayloads == SeqsUpTo({"A", "R", "P", "T"}, MaxText)

\* The notification a module in range emits for a frame sent from address
\* addr: '+RCV=<addr>,<len>,<payload>,<rssi>,<snr>\r\n', in bytes.
Heard(addr, bytes) ==
    Encode(RCVEq \o addr) \o <<",">> \o SentLen(bytes) \o SentTail(bytes)
        \o <<",", "-", "8", "0", ",", "9">> \o CRLF

\* both repeaters run; the node at address a has sent payload p once, and
\* the repeaters in range of that node have heard it
InitRelay ==
    /\ \E a \in Addrs, p \in RelayPayloads, inRange \in (SUBSET Stations) \ {{}} :
          inbox = [s \in Stations |->
                      IF s \in inRange
                      THEN <<Encode(RcvText(<<a>>, Len(Encode(p)), p)) \o CRLF>>
                      ELSE <<>>]
    /\ hops = 0
    /\ unsent = <<>>
    /\ uart = <<>> /\ accum = <<>> /\ rpc = "off" /\ arrived = <<>> /\ events = <<>>
    /\ wire = <<>> /\ clock = 0 /\ rx = <<>>
    /\ codecIdle /\ cfgIdle /\ sessionIdle /\ auditIdle
    /\ messageIdle /\ max_lines = MaxLines

\* run() at station s: the next line is read and process_message
\* rebroadcasts it; the other repeater's module hears the frame
RelayRepeat ==
    /\ hops < MaxHops
    /\ \E s \in Stations :
          /\ inbox[s] # <<>>
          /\ LET r == ProcessMessage(Head(inbox[s]), s)
                 o == OtherStation(s)
             IN /\ r.kind = "repeated"
                /\ wire' = Window(WriteSerial(wire, r.text))
                /\ inbox' = [inbox EXCEPT ![s] = Tail(inbox[s]),
                                          ![o] = Append(inbox[o],
                                                        Heard(s, WriteSerialBytes(r.text)))]
    /\ hops' = hops + 1
    /\ UNCHANGED <<messageVars, max_lines, unsent, repeaterVars, codecVars, auditVars, cfgVars, sessionVars, clock>>

\* run() at station s: the next line is read and process_message returns
\* without writing
RelayDrop ==
    /\ \E s \in Stations :
          /\ inbox[s] # <<>>
          /\ ProcessMessage(Head(inbox[s]), s).kind \in {"ignored", "nonmessage", "malformed"}
          /\ inbox' = [inbox EXCEPT ![s] = Tail(inbox[s])]
    /\ UNCHANGED <<messageVars, max_lines, unsent, repeaterVars, hops, codecVars, auditVars, cfgVars, sessionVars,
                   wire, clock>>

NextRelay == RelayRepeat \/ RelayDrop

SpecRelay == InitRelay /\ [][NextRelay]_vars

----------------------------------------------------------------------------
(* One repeater at the grain of the UART: the module's lines reach the      *)
(* receiver in bursts of bytes while run() reads, processes and blinks.     *)

\* most lines the module sends
MaxArrivals == 2

\* lines the module sends to the repeater
RepeaterLines == {RcvLine, OkLine}

\* where a burst may end: in the middle of a line or at its end; what is
\* left of a line comes in one burst
CutPoints(line) ==
    IF line.origin = "rest" THEN {Len(line.bytes)}
    ELSE {Len(line.bytes) \div 2, Len(line.bytes)}

\* received_data.endswith(b'\r\n')
EndsWith(s, sub) == Len(s) >= Len(sub) /\ SubSeq(s, Len(s) - Len(sub) + 1, Len(s)) = sub

\* RepeaterApplication.run() entered after setup()
InitRepeater ==
    /\ rpc = "call" /\ uart = <<>> /\ accum = <<>> /\ arrived = <<>> /\ events = <<>>
    /\ unsent = <<>> /\ inbox = <<>> /\ hops = 0
    /\ wire = <<>> /\ clock = 0 /\ rx = <<>>
    /\ codecIdle /\ cfgIdle /\ sessionIdle /\ auditIdle
    /\ messageIdle /\ max_lines = MaxLines

\* the module emits a line
ModuleSends ==
    /\ Len(arrived) < MaxArrivals
    /\ \E line \in RepeaterLines :
          /\ arrived' = Append(arrived, line)
          /\ rx' = Append(rx, RxLine(line, "run"))
    /\ UNCHANGED <<messageVars, max_lines, unsent, relayVars, uart, accum, rpc, events, codecVars, auditVars, cfgVars,
                   uiVars, beaconVars, pollVars, portVars, wire, clock, stop, output_buffer,
                   stopAt>>

\* the next burst of the oldest line in transit reaches the UART's buffer
UartReceive ==
    /\ rx # <<>>
    /\ \E k \in CutPoints(Head(rx)) :
          /\ uart' = uart \o SubSeq(Head(rx).bytes, 1, k)
          /\ rx' = IF k = Len(Head(rx).bytes) THEN Tail(rx)
                   ELSE <<RxLine(SubSeq(Head(rx).bytes, k + 1, Len(Head(rx).bytes)), "rest")>>
                          \o Tail(rx)
    /\ UNCHANGED <<messageVars, max_lines, unsent, relayVars, accum, rpc, arrived, events, codecVars, auditVars, cfgVars,
                   uiVars, beaconVars, pollVars, portVars, wire, clock, stop, output_buffer,
                   stopAt>>

\* read_serial(): start_time = time.time.ticks_ms(), where the time module
\* carries the tick functions under that name; received_data = b''
RepCall ==
    /\ rpc = "call"
    /\ accum' = <<>>
    /\ rpc' = "loop"
    /\ UNCHANGED <<messageVars, max_lines, unsent, relayVars, uart, arrived, events, codecVars, auditVars, cfgVars,
                   sessionVars, wire, clock>>

\* read_serial(): time.time.ticks_ms() raises AttributeError where time.time
\* is the function time(); run() catches only KeyboardInterrupt
RepCallRaises ==
    /\ rpc = "call"
    /\ rpc' = "crashed"
    /\ UNCHANGED <<messageVars, max_lines, unsent, relayVars, uart, accum, arrived, events, codecVars, auditVars,
                   cfgVars, sessionVars, wire, clock>>

\* read_serial(): new_data = self.uart.read() returns every buffered byte;
\* received_data += new_data
RepRead ==
    /\ rpc = "loop" /\ ~EndsWith(accum, CRLF) /\ uart # <<>>
    /\ accum' = accum \o uart
    /\ uart' = <<>>
    /\ UNCHANGED <<messageVars, max_lines, unsent, relayVars, rpc, arrived, events, codecVars, auditVars, cfgVars,
                   sessionVars, wire, clock>>

\* read_serial() returns, because received_data ends with CRLF or because
\* the timeout has passed; run(): if received_data: print the decoded line,
\* process_message(received_data), print, blink_led()
RepReturn ==
    /\ rpc = "loop"
    /\ IF accum = <<>>
       THEN rpc' = "call" /\ UNCHANGED <<events, wire>>
       ELSE IF ~DecodeOK(accum)
       THEN rpc' = "crashed" /\ UNCHANGED <<events, wire>>
       ELSE LET r == ProcessMessage(accum, StationId)
            IN /\ events' = Append(events, accum)
               /\ wire' = IF r.kind = "repeated" THEN Window(WriteSerial(wire, r.text))
                                                 ELSE wire
               /\ rpc' = IF r.kind \in Raised THEN "crashed" ELSE "call"
    /\ UNCHANGED <<messageVars, max_lines, unsent, relayVars, uart, accum, arrived, codecVars, auditVars, cfgVars,
                   sessionVars, clock>>

NextRepeater ==
    \/ ModuleSends \/ UartReceive \/ RepCall \/ RepCallRaises \/ RepRead \/ RepReturn

SpecRepeater == InitRepeater /\ [][NextRepeater]_vars

----------------------------------------------------------------------------
(* The output log of the UI with room for more than one line: the beacon    *)
(* thread, the poll thread and the UI thread all append to it.              *)

\* max_lines of the log (the code's default is 100)
MaxLogLines == 2

\* BeaconMasterUI(stdscr, device_connection, commander, max_lines)
InitLog ==
    /\ role = "src" /\ variant \in Variants
    /\ hpc = "done" /\ hstep = Len(ConfigureSeq(role, variant))
    /\ replies = 0 /\ drained = 0
    /\ wire = <<>> /\ clock = 0 /\ rx = <<>>
    /\ codecIdle
    /\ ui = "start" /\ bpc = "off" /\ ppc = "off" /\ pn = 0 /\ stop = FALSE
    /\ isOpen = TRUE /\ closes = 0 /\ output_buffer = <<>>
    /\ beacon_text = DefaultBeaconText /\ user_input = <<>> /\ input_active = FALSE
    /\ bWake = 0 /\ stopAt = -1 /\ bAfter = 0 /\ pReadsAfter = 0 /\ pPassesAfter = 0
    /\ ioClosed = FALSE /\ sentAt = {}
    /\ baud = BaudRate(variant) /\ closeCalls = 0 /\ perr = "none" /\ nack = FALSE
    /\ unsent = <<>>
    /\ uart = <<>> /\ accum = <<>> /\ rpc = "off" /\ arrived = <<>> /\ events = <<>>
    /\ inbox = <<>> /\ hops = 0
    /\ messageIdle /\ max_lines = MaxLogLines

NextLog ==
    \/ UiStartBeacon \/ UiStartPoll \/ UiKey
    \/ UiJoinBeacon \/ UiJoinPoll \/ UiClose
    \/ BeaconCheck \/ BeaconSend \/ BeaconTimeout
    \/ Arrive
    \/ PollCheck \/ PollReadLine \/ PollReadEmpty \/ PollReadRaises \/ PollTimeout

SpecLog == InitLog /\ [][NextLog]_vars

----------------------------------------------------------------------------
(* The Message object: constructed from a text, then encode() and decode()  *)
(* called in any order.                                                     *)

\* most method calls made on one Message
MaxCalls == 3

\* a constructor that keeps the text as it is
NewContentPlain(text) == [type |-> "str", value |-> text]

\* Message.__init__: self.content = content.encode()
NewContent(text) == [type |-> "bytes", value |-> Encode(text)]

\* Message(content)
InitMessage ==
    /\ input \in Texts
    /\ content = NewContent(input)
    /\ raised = "none" /\ trail = <<>>
    /\ op = "message" /\ result = Res("none", <<>>, <<>>) /\ cpc = "off"
    /\ unsent = <<>>
    /\ uart = <<>> /\ accum = <<>> /\ rpc = "off" /\ arrived = <<>> /\ events = <<>>
    /\ inbox = <<>> /\ hops = 0 /\ max_lines = MaxLines
    /\ wire = <<>> /\ clock = 0 /\ rx = <<>>
    /\ cfgIdle /\ sessionIdle /\ auditIdle

\* Message.encode(): a str content is encoded, a bytes content raises
MessageEncode ==
    /\ Len(trail) < MaxCalls
    /\ trail' = Append(trail, "encode")
    /\ IF content.type = "str"
       THEN /\ content' = [type |-> "bytes", value |-> Encode(content.value)]
            /\ raised' = "none"
       ELSE /\ content' = content
            /\ raised' = "TypeError"
    /\ UNCHANGED <<unsent, repeaterVars, relayVars, max_lines, codecVars, auditVars, cfgVars,
                   sessionVars, wire, clock>>

\* Message.decode(): a bytes content is decoded, a str content raises
MessageDecode ==
    /\ Len(trail) < MaxCalls
    /\ trail' = Append(trail, "decode")
    /\ IF content.type = "bytes"
       THEN IF DecodeOK(content.value)
            THEN /\ content' = [type |-> "str", value |-> Decode(content.value)]
                 /\ raised' = "none"
            ELSE /\ content' = content
                 /\ raised' = "UnicodeDecodeError"
       ELSE /\ content' = content
            /\ raised' = "TypeError"
    /\ UNCHANGED <<unsent, repeaterVars, relayVars, max_lines, codecVars, auditVars, cfgVars,
                   sessionVars, wire, clock>>

NextMessage == MessageEncode \/ MessageDecode

SpecMessage == InitMessage /\ [][NextMessage]_vars

----------------------------------------------------------------------------
(* The connection object on its own: constructed with any device type, then *)
(* written to, read from and closed in any order by its caller.             *)

\* most close() calls made on one connection object
MaxCloseCalls == 3

\* device types a caller may pass: the two variants and one that is neither
DeviceTypes == Variants \cup {"RYLR999"}

InitTransport ==
    /\ role \in Roles /\ variant \in DeviceTypes
    /\ hpc = "idle" /\ hstep = 0 /\ replies = 0 /\ drained = 0
    /\ wire = <<>> /\ clock = 0 /\ rx = <<>>
    /\ codecIdle /\ sessionIdle /\ auditIdle
    /\ auxIdle

\* __init__(device_type=...): ValueError for a device type that is neither
\* variant, else serial.Serial(port, baud_rates[device_type], timeout=1)
TrOpen ==
    /\ hpc = "idle"
    /\ IF variant \notin Variants
       THEN /\ hpc' = "invalid"
            /\ UNCHANGED <<isOpen, baud>>
       ELSE /\ hpc' = "open"
            /\ isOpen' = TRUE
            /\ baud' = BaudRate(variant)
    /\ UNCHANGED <<auxVars, codecVars, closeCalls, perr, nack, role, variant, hstep, replies, drained,
                   uiVars, beaconVars, pollVars, closes, ioClosed, wire, clock, rx, stop,
                   output_buffer, stopAt>>

\* write_serial(text): conn.write(text.encode()), which raises on a closed port
TrWrite ==
    /\ hpc = "open"
    /\ \E text \in {AtReset, FullCommand(<<"A">>)} :
          IF isOpen
          THEN wire' = Window(WriteSerial(wire, text)) /\ ioClosed' = ioClosed
          ELSE wire' = wire /\ ioClosed' = TRUE
    /\ UNCHANGED <<auxVars, codecVars, auditVars, cfgVars, uiVars, beaconVars, pollVars, isOpen,
                   closes, clock, rx, stop, output_buffer, stopAt>>

\* the module sends a line
TrArrive ==
    /\ hpc = "open" /\ isOpen /\ Len(rx) < MaxRx
    /\ rx' = Append(rx, RxLine(OkLine, "run"))
    /\ UNCHANGED <<auxVars, codecVars, auditVars, cfgVars, uiVars, beaconVars, pollVars, portVars,
                   wire, clock, stop, output_buffer, stopAt>>

\* read_serial(): one conn.readline(), which raises on a closed port
TrRead ==
    /\ hpc = "open"
    /\ IF isOpen
       THEN rx' = (IF rx = <<>> THEN rx ELSE Tail(rx)) /\ ioClosed' = ioClosed
       ELSE rx' = rx /\ ioClosed' = TRUE
    /\ UNCHANGED <<auxVars, codecVars, auditVars, cfgVars, uiVars, beaconVars, pollVars, isOpen,
                   closes, wire, clock, stop, output_buffer, stopAt>>

\* close(), called once more (the repeater's connection class has no close)
TrClose ==
    /\ hpc = "open" /\ role # "repeater"
    /\ closeCalls < MaxCloseCalls
    /\ SerialClose
    /\ UNCHANGED <<auxVars, codecVars, baud, perr, nack, cfgVars, uiVars, beaconVars, pollVars,
                   ioClosed, wire, clock, rx, stop, output_buffer, stopAt>>

NextTransport == TrOpen \/ TrWrite \/ TrArrive \/ TrRead \/ TrClose

SpecTransport == InitTransport /\ [][NextTransport]_vars

----------------------------------------------------------------------------
(* The beacon thread against a simulated clock: time passes only while the  *)
(* thread is blocked in stop_event.wait() or has returned, and the wait     *)
(* times out exactly at its deadline.                                       *)

\* how long the simulated clock runs
MaxClock == 185

InitClock ==
    /\ role = "src" /\ variant = "RYLR993"
    /\ hpc = "done" /\ hstep = Len(ConfigureSeq(role, variant)) /\ replies = 0 /\ drained = 0
    /\ wire = <<>> /\ clock = 0 /\ rx = <<>>
    /\ codecIdle
    /\ ui = "loop" /\ bpc = "check" /\ ppc = "off" /\ pn = 0 /\ stop = FALSE
    /\ isOpen = TRUE /\ closes = 0 /\ output_buffer = <<>>
    /\ beacon_text = DefaultBeaconText /\ user_input = <<>> /\ input_active = FALSE
    /\ bWake = 0 /\ stopAt = -1 /\ bAfter = 0 /\ pReadsAfter = 0 /\ pPassesAfter = 0
    /\ ioClosed = FALSE /\ sentAt = {}
    /\ baud = BaudRate(variant) /\ closeCalls = 0 /\ perr = "none" /\ nack = FALSE
    /\ auxIdle

\* one second passes
Tick ==
    /\ clock < MaxClock
    /\ \/ bpc = "sleeping" /\ clock < bWake
       \/ bpc \in {"done", "dead"}
    /\ clock' = clock + 1
    /\ UNCHANGED <<auxVars, codecVars, auditVars, cfgVars, uiVars, beaconVars, pollVars, portVars, wire, rx,
                   stop, output_buffer, stopAt>>

\* the user presses 'q'
ClkQuit == UiKeyIn({"q"})

\* stop_event.wait(BEACON_INTERVAL) times out at its deadline
ClkBeaconTimeout == clock >= bWake /\ BeaconTimeout

NextClock == Tick \/ ClkQuit \/ BeaconCheck \/ BeaconSend \/ ClkBeaconTimeout

SpecClock == InitClock /\ [][NextClock]_vars

----------------------------------------------------------------------------
(* Reading a frame back off the wire, as the radio module does.             *)

RECURSIVE ParseNat(_)
\* the number a non-empty digit string denotes
ParseNat(ds) == IF Len(ds) = 1 THEN DigitVal(ds[1])
                ELSE ParseNat(SubSeq(ds, 1, Len(ds) - 1)) * 10 + DigitVal(ds[Len(ds)])

IsSendFrame(bytes) ==
    /\ Len(bytes) > Len(AtSend0) + 2
    /\ SubSeq(bytes, 1, Len(AtSend0)) = AtSend0
    /\ SubSeq(bytes, Len(bytes) - 1, Len(bytes)) = CRLF

\* what follows "AT+SEND=0," up to the CRLF: "<len>,<payload>"
FrameBody(bytes) == SubSeq(bytes, Len(AtSend0) + 1, Len(bytes) - 2)
\* position of the comma that ends the length field
FrameComma(bytes) == CHOOSE k \in 1..Len(FrameBody(bytes)) :
    FrameBody(bytes)[k] = "," /\ \A j \in 1..(k - 1) : FrameBody(bytes)[j] # ","
FrameLenField(bytes) == ParseNat(SubSeq(FrameBody(bytes), 1, FrameComma(bytes) - 1))
FramePayload(bytes) == SubSeq(FrameBody(bytes), FrameComma(bytes) + 1, Len(FrameBody(bytes)))

(* C1: in every frame 'AT+SEND=<addr>,<len>,<payload>\r\n' written to the    *)
(* transport by a send operation, the length field equals the number of     *)
(* payload bytes actually written (after text encoding), also for payloads  *)
(* with multi-byte characters.                                              *)
C1_LengthFieldIsByteLength ==
    \A i \in 1..Len(wire) :
        IsSendFrame(wire[i].bytes) =>
            FrameLenField(wire[i].bytes) = Len(FramePayload(wire[i].bytes))

RECURSIVE SumTo(_, _)
\* the sum of the first n elements of a sequence of numbers
SumTo(q, n) == IF n = 0 THEN 0 ELSE SumTo(q, n - 1) + q[n]

WireBytes == [i \in 1..Len(wire) |-> wire[i].bytes]

Expected993(r) == <<AtReset, AtOpmode, AtReset, AtBand, AtAddress(r), AtCrfop, AtParameter>>
Settle993 == <<2, 2, 2, 1, 1, 1, 1>>

(* C2: for RYLR993 the handshake writes exactly RESET, OPMODE=1, RESET,      *)
(* BAND, ADDRESS, CRFOP, PARAMETER, in this order and nothing else, and     *)
(* each command is written only once the settle delays of the commands      *)
(* before it (2s after RESET and OPMODE, 1s after the others) have elapsed. *)
C2_Rylr993Handshake ==
    variant = "RYLR993" =>
        /\ Len(wire) <= Len(Expected993(role))
        /\ \A i \in 1..Len(wire) :
              /\ wire[i].bytes = Encode(Expected993(role)[i])
              /\ wire[i].t = SumTo(Settle993, i - 1)
        /\ hpc \in {"drain", "done"} =>
              /\ Len(wire) = Len(Expected993(role))
              /\ clock = SumTo(Settle993, Len(Settle993))

C2_Witness ==
    /\ variant = "RYLR993" /\ role = "src" /\ hpc = "done"
    /\ Len(wire) = 7 /\ wire[7].bytes = Encode(AtParameter) /\ wire[7].t = 9

Expected998(r) == <<AtReset, AtBand, AtAddress(r), AtCrfop, AtParameter>>

(* C3: for RYLR998, in every role's configuration routine, the handshake    *)
(* writes exactly one RESET and no OPMODE: RESET, BAND, ADDRESS, CRFOP,     *)
(* PARAMETER (five commands).                                               *)
C3_Rylr998Handshake ==
    (variant = "RYLR998" /\ hpc \in {"drain", "done"}) =>
        WireBytes = [i \in 1..5 |-> Encode(Expected998(role)[i])]

(* C4: when the handshake returns, every response line the module emitted   *)
(* during it (up to the drain bound) has been read and discarded, and no    *)
(* handshake response is later logged by the poll task as a received line.  *)
C4_HandshakeResponsesDrained ==
    /\ hpc = "done" =>
          drained = Min(replies, IF role = "repeater" THEN 10 ELSE MaxReads)
    /\ \A i \in 1..Len(output_buffer) : output_buffer[i].origin # "hs"

(* C5: the transport is closed only after both the beacon task and the    *)
(* poll task have returned: no read or write is ever issued on the closed   *)
(* transport.                                                               *)
C5_NoIoAfterClose ==
    /\ ~ioClosed
    /\ closes > 0 => (Joined(bpc) /\ Joined(ppc))
    /\ closes > 0 => (bpc \in {"done", "dead"} /\ ppc \in {"done", "dead"})

C5_Witness ==
    /\ ui = "closed" /\ closes = 1 /\ ~isOpen
    /\ bpc = "done" /\ ppc = "done" /\ wire # <<>>

(* C6: on every path that ends a session after the transport was opened    *)
(* (user quit, serial error during the handshake, serial error during the   *)
(* run, keyboard interrupt) the underlying close ran exactly once, and      *)
(* nothing of the session runs after Closed.                                *)
C6_ClosedExactlyOnce ==
    /\ closes <= 1
    /\ (ui \in {"closed", "failed", "interrupted"} /\ (isOpen \/ closes > 0)) =>
          (closes = 1 /\ ~isOpen)
    /\ ui = "closed" => (bpc \in {"done", "dead"} /\ ppc \in {"done", "dead"})

(* C7: once the cancellation signal is raised the beacon task writes at     *)
(* most one further frame (a send already in flight) and is then on its way *)
(* out; it is never left sleeping out its interval, the signal wakes it.    *)
C7_BeaconStopsPromptly ==
    /\ bAfter <= 1
    /\ stop => bpc # "sleeping"
    /\ (stop /\ bAfter = 1) => bpc \in {"check", "done"}

C7_Witness == stop /\ bAfter = 1 /\ bpc = "done"

(* C8, as stated: once the cancellation signal is raised the poll task      *)
(* performs at most one further bounded (timeout-bounded) line read before  *)
(* it observes the signal.                                                  *)
C8_OneFurtherRead ==
    /\ pReadsAfter <= 1
    /\ stop => ppc # "sleeping"

(* C8, amended: once the cancellation signal is raised the poll task begins *)
(* at most one further read_serial() pass, which makes at most max_reads    *)
(* line reads however many lines keep arriving, and its idle wait is woken  *)
(* by the signal.                                                           *)
C8_OneFurtherPass ==
    /\ pPassesAfter <= 1
    /\ pReadsAfter <= MaxReads
    /\ stop => ppc # "sleeping"
    /\ (stop /\ pPassesAfter = 1 /\ ppc # "reading") => ppc \in {"check", "done", "dead"}

C8_Witness == stop /\ pPassesAfter = 1 /\ pReadsAfter = MaxReads /\ ppc = "done"

(* C9: with interval 60 the beacon task emits its first frame at t=0 and    *)
(* then one frame every 60 time units; when cancellation is raised at       *)
(* t=125 the frames emitted are exactly those at t=0, 60, 120 and none is   *)
(* emitted afterwards.                                                      *)
C9_BeaconSchedule ==
    /\ \A t \in sentAt : t % BEACON_INTERVAL = 0
    /\ bpc = "sleeping" => sentAt = {t \in 0..(bWake - 1) : t % BEACON_INTERVAL = 0}
    /\ stopAt = 125 => (sentAt = {0, 60, 120} /\ bAfter = 0)

C9_Witness ==
    /\ stopAt = 125 /\ bpc = "done" /\ clock = MaxClock
    /\ sentAt = {0, 60, 120}

(* C11: every inbound line that does not contain '+RCV' is NotAnEvent: it   *)
(* is handed on as it was read (its surrounding whitespace removed) as a     *)
(* diagnostic, is no inbound event, and nothing is written to the           *)
(* transport, also when the line contains 'RPT'.                            *)
C11_NoRcvIsNotAnEvent ==
    (/\ cpc = "done"
     /\ op \in {"parse_received_message", "process_message"}
     /\ ~Contains(input, RCV))
    => /\ wire = <<>>
       /\ result.kind \in {"None", "nonmessage"}
       /\ result.kind = "nonmessage" => Encode(result.text) = Strip(input)

(* C12: a payload sent with the send encoding and presented back as the     *)
(* line '+RCV=<addr>,<len>,<payload>,<rssi>,<snr>' decodes to an inbound     *)
(* event with that address and that payload, whatever the payload's         *)
(* characters.                                                              *)
C12_RoundTrip ==
    /\ (cpc = "done" /\ op = "round_trip_parse") =>
          /\ result.kind = "message"
          /\ result.sender = <<Head(input)>>
          /\ result.text = Tail(input)
    /\ (cpc = "done" /\ op = "round_trip_process") =>
          /\ result.kind = "repeated"
          /\ result.sender = <<Head(input)>>
          /\ result.text = RepeatedMessage(Tail(input), <<Head(input)>>, StationId)

\* a decimal number, with or without a sign
IsNumber(f) ==
    /\ f # <<>>
    /\ \A i \in 1..Len(f) : DigitVal(f[i]) >= 0 \/ (i = 1 /\ f[i] = "-" /\ Len(f) > 1)

\* the fields of a line of bytes that decodes
FieldsOf(bytes) == Split(Strip(Decode(bytes)), ",")

\* '+RCV=<addr>,<len>,<payload>,<rssi>,<snr>' with numeric addr, len, rssi, snr
WellFormedEvent(bytes) ==
    /\ DecodeOK(bytes)
    /\ Len(FieldsOf(bytes)) = 5
    /\ StartsWith(FieldsOf(bytes)[1], RCVEq)
    /\ IsNumber(SubSeq(FieldsOf(bytes)[1], Len(RCVEq) + 1, Len(FieldsOf(bytes)[1])))
    /\ IsNumber(FieldsOf(bytes)[2])
    /\ IsNumber(FieldsOf(bytes)[4])
    /\ IsNumber(FieldsOf(bytes)[5])

EventSender(bytes) == SubSeq(FieldsOf(bytes)[1], Len(RCVEq) + 1, Len(FieldsOf(bytes)[1]))
EventPayload(bytes) == FieldsOf(bytes)[3]

\* 'RPT' at some position of a text
HasRPT(text) == \E i \in 1..(Len(text) - 2) :
    text[i] = "R" /\ text[i + 1] = "P" /\ text[i + 2] = "T"

(* C13: in the repeater a well-formed inbound event is dropped (nothing is  *)
(* written) exactly when its payload has 'RPT' at some position; every      *)
(* other well-formed event is rebroadcast exactly once.                     *)
C13_DroppedIffRPT ==
    (cpc = "done" /\ op = "process_message" /\ WellFormedEvent(input)) =>
        /\ (wire = <<>>) <=> HasRPT(EventPayload(input))
        /\ ~HasRPT(EventPayload(input)) => (Len(wire) = 1 /\ result.kind = "repeated")
        /\ HasRPT(EventPayload(input)) => result.kind = "ignored"

C13_Witness ==
    /\ cpc = "done" /\ op = "process_message" /\ WellFormedEvent(input)
    /\ HasRPT(EventPayload(input)) /\ ~StartsWith(EventPayload(input), RPT)
    /\ wire = <<>> /\ result.kind = "ignored"

(* C14, as stated: the event with payload 'STARTED' is rebroadcast, the     *)
(* event with payload 'CORRUPTED' is dropped.                               *)
C14_StartedPassesCorruptedDropped ==
    (cpc = "done" /\ op = "process_message") =>
        /\ input \in { RcvText(<<"5">>, 7, STARTED) \o CRLF,
                       RcvText(<<"5">>, 9, STARTED \o CRLF) \o CRLF }
              => (Len(wire) = 1 /\ result.kind = "repeated")
        /\ input = RcvText(<<"5">>, 9, CORRUPTED) \o CRLF
              => (wire = <<>> /\ result.kind = "ignored")

(* C14, amended: the events with payload 'STARTED' and with payload         *)
(* 'CORRUPTED' are both rebroadcast ('CORRUPTED' has 'RUPT', not 'RPT');    *)
(* the event with payload 'HI RPT' is dropped.                              *)
C14_StartedAndCorruptedPass ==
    (cpc = "done" /\ op = "process_message") =>
        /\ input \in { RcvText(<<"5">>, 7, STARTED) \o CRLF,
                       RcvText(<<"5">>, 9, STARTED \o CRLF) \o CRLF,
                       RcvText(<<"5">>, 9, CORRUPTED) \o CRLF }
              => (Len(wire) = 1 /\ result.kind = "repeated")
        /\ input = RcvText(<<"5">>, 5, <<"H", "I", " ">> \o RPT) \o CRLF
              => (wire = <<>> /\ result.kind = "ignored")

C14_Witness ==
    /\ cpc = "done" /\ op = "process_message"
    /\ input = RcvText(<<"5">>, 9, CORRUPTED) \o CRLF
    /\ Len(wire) = 1 /\ result.kind = "repeated"

(* C15: for every non-dropped event with sender S and payload P received by *)
(* the repeater with station id R exactly one frame is written: its bytes   *)
(* are 'AT+SEND=0,<n>,' then the bytes of 'P SVIAR' then CR LF, with n the  *)
(* number of bytes of 'P SVIAR'; station 100 receiving                      *)
(* '+RCV=5,11,HELLO WORLD,-80,9' writes 'AT+SEND=0,19,HELLO WORLD 5VIA100'. *)
C15_RebroadcastFrame ==
    (/\ cpc = "done" /\ op = "process_message"
     /\ WellFormedEvent(input) /\ ~HasRPT(EventPayload(input))) =>
        LET tagged == Encode(EventPayload(input) \o <<" ">> \o EventSender(input)
                               \o VIA \o StationId)
        IN /\ Len(wire) = 1
           /\ wire[1].bytes = AtSend0 \o Digits(Len(tagged)) \o <<",">> \o tagged \o CRLF
           /\ input = RcvText(<<"5">>, 11, HELLO_WORLD) \o CRLF =>
                 wire[1].bytes = AtSend0 \o <<"1", "9", ",">> \o HELLO_WORLD
                                   \o <<" ", "5", "V", "I", "A", "1", "0", "0">> \o CRLF

(* C16: constructing a connection with a device type other than RYLR993 or *)
(* RYLR998 fails before the port is opened and before a byte is written;    *)
(* for a valid type the port is opened at 9600 baud for RYLR993 and 115200  *)
(* for RYLR998, and the baud never changes afterwards.                      *)
C16_BaudByVariant ==
    /\ variant \notin {"RYLR993", "RYLR998"} =>
          (~isOpen /\ baud = 0 /\ wire = <<>> /\ hpc \in {"idle", "invalid"})
    /\ isOpen => baud # 0
    /\ baud # 0 => \/ variant = "RYLR993" /\ baud = 9600
                   \/ variant = "RYLR998" /\ baud = 115200

C16_Witness == variant = "RYLR999" /\ hpc = "invalid" /\ ~isOpen /\ baud = 0

(* C17: close() is idempotent: however often it is called, the underlying   *)
(* handle is closed at most once, and from the first call on the port stays *)
(* closed with exactly one close of the handle.                             *)
C17_CloseIdempotent ==
    /\ closes <= 1
    /\ closeCalls >= 1 => (closes = 1 /\ ~isOpen)

C17_Witness == closeCalls = MaxCloseCalls /\ closes = 1 /\ ~isOpen

(* C18: a malformed or undecodable inbound line never ends the poll task:   *)
(* the task goes on reading the lines that arrive after it.                 *)
C18_BadLineAbsorbed == ~(ppc = "dead" /\ perr = "UnicodeDecodeError")

(* C19: when a transport read or write fails fatally inside the beacon or   *)
(* the poll task, the cancellation signal is raised with it: the session is *)
(* never running with one of its two tasks dead and the signal not raised.  *)
C19_FatalErrorStopsSession ==
    (bpc = "dead" \/ (ppc = "dead" /\ perr = "SerialException")) => stop

(* C20: a handshake step that fails (the module answers with an error, or   *)
(* the transport raises) ends the handshake: the routine does not run to    *)
(* its end after an error reply, and after a failure the port is closed.    *)
C20_HandshakeFailureCloses ==
    /\ nack => hpc \notin {"drain", "done"}
    /\ hpc = "failed" => ~isOpen

(* C10: decoding never raises: a line that contains '+RCV' but has fewer    *)
(* than 5 comma-separated fields, or whose first field has no '=<addr>'     *)
(* part, yields the explicit Malformed result.                              *)
C10_ShortLineIsMalformed ==
    (/\ cpc = "done"
     /\ op \in {"parse_received_message", "process_message"}
     /\ Contains(input, RCV)
     /\ \/ Len(Split(input, ",")) < 5
        \/ Len(Split(Split(input, ",")[1], "=")) < 2)
    => /\ result.kind \notin Raised
       /\ result.kind = "malformed"

\* C21: the stop signal is clear until a shutdown request, is set only by
\* the quit key handled in the UI loop, is never cleared once set, and is
\* the one signal both threads test: a thread that tests it after it is
\* set ends its loop.
C21_StopSignalOneShot ==
    /\ [](ui \in {"idle", "start", "startPoll", "loop", "failed"} => ~stop)
    /\ [][stop => stop']_vars
    /\ [][(~stop /\ stop') => (ui = "loop" /\ ui' = "joinBeacon")]_vars
    /\ [][(stop /\ bpc = "check" /\ bpc' # bpc) => bpc' = "done"]_vars
    /\ [][(stop /\ ppc = "check" /\ ppc' # ppc) => ppc' = "done"]_vars

C21_Witness == stop /\ ui = "joinPoll" /\ bpc = "done" /\ ppc = "done"

\* C24: while the session is Running (the UI loop is being served and the
\* stop signal is clear) the beacon thread and the poll thread are both
\* alive: each was started once and neither has returned or died.
C24_TwoTasksWhileRunning ==
    (ui = "loop" /\ ~stop) =>
        /\ bpc \in {"check", "send", "sleeping"}
        /\ ppc \in {"check", "reading", "sleeping"}

\* The state of the session: 0 Idle, 1 Configuring, 2 Running,
\* 3 ShuttingDown, 4 Closed, 5 abandoned (the routine failed or the main
\* thread was interrupted).
Phase ==
    CASE hpc = "failed" \/ ui \in {"failed", "interrupted"} -> 5
      [] ui = "closed" -> 4
      [] ui \in {"joinBeacon", "joinPoll", "close"} -> 3
      [] ui = "loop" -> 2
      [] hpc = "idle" -> 0
      [] OTHER -> 1

\* C25: the session only moves forward through Idle, Configuring, Running,
\* ShuttingDown, Closed; until the routine's last command is written, its
\* settle delay has passed and the routine has returned, no thread exists
\* to read or write the port; once Running, the routine writes nothing
\* more: every frame written from then on is a send frame.
C25_ForwardOnly ==
    /\ [][Phase' >= Phase]_vars
    /\ [](~(hpc = "done" /\ hstep = Len(ConfigureSeq(role, variant)))
            => (bpc = "off" /\ ppc = "off"))
    /\ [][Phase >= 2 => (hpc' = hpc /\ hstep' = hstep)]_vars
    /\ [][(Phase >= 2 /\ wire' # wire)
            => wire'[Len(wire')].bytes = WriteSerialBytes(FullCommand(beacon_text))]_vars

C25_Witness ==
    /\ Phase = 4 /\ hpc = "done" /\ sentAt # {}
    /\ hstep = Len(ConfigureSeq(role, variant))

\* the last frame written to the port
LastFrame(w) == w[Len(w)].bytes

\* C29: the beacon text is the default text at the start and changes only
\* when the text-entry mode is left with Enter, to the pending input of that
\* moment; every frame the beacon thread writes is the send frame of the
\* beacon text as it is at that write.
C29_BeaconCarriesCurrentText ==
    /\ beacon_text = DefaultBeaconText
    /\ [][beacon_text' # beacon_text
            => /\ ui = "loop" /\ input_active /\ ~input_active'
               /\ beacon_text' = user_input /\ user_input' = <<>>]_vars
    /\ [][wire' # wire
            => /\ LastFrame(wire') = WriteSerialBytes(FullCommand(beacon_text))
               /\ beacon_text' = beacon_text]_vars

C29_Witness ==
    /\ wire # <<>> /\ beacon_text = <<"A">> /\ user_input = <<"A">> /\ input_active
    /\ LastFrame(wire) = WriteSerialBytes(FullCommand(<<"A">>))

\* texts of at most InputLimit characters
ShortTexts == SeqsUpTo({"A"}, InputLimit)

\* C30: the pending input never holds more than the limit of characters
\* (50 in the source), so the beacon text is the default text or a text of
\* at most that many characters, and so is the payload of every frame.
C30_InputBounded ==
    /\ Len(user_input) <= InputLimit
    /\ beacon_text \in ShortTexts \cup {DefaultBeaconText}
    /\ \A i \in 1..Len(wire) :
          \E text \in ShortTexts \cup {DefaultBeaconText} :
              wire[i].bytes = WriteSerialBytes(FullCommand(text))

C30_Witness ==
    /\ Len(user_input) = InputLimit /\ Len(beacon_text) = InputLimit
    /\ beacon_text # DefaultBeaconText
    /\ wire # <<>> /\ LastFrame(wire) = WriteSerialBytes(FullCommand(beacon_text))

RECURSIVE Flatten(_)
\* the bytes of the writes, in the order they reached the port
Flatten(w) == IF w = <<>> THEN <<>> ELSE Head(w).bytes \o Flatten(Tail(w))

\* the frames a beacon can be: one per beacon text
BeaconFrames ==
    {WriteSerialBytes(FullCommand(text)) : text \in ShortTexts \cup {DefaultBeaconText}}

RECURSIVE WellFramed(_)
\* a byte stream that is whole frames one after the other, the last one
\* possibly still being written
WellFramed(s) ==
    \/ s = <<>>
    \/ \E f \in BeaconFrames :
          \/ /\ Len(f) <= Len(s) /\ SubSeq(s, 1, Len(f)) = f
             /\ WellFramed(SubSeq(s, Len(f) + 1, Len(s)))
          \/ Len(s) < Len(f) /\ SubSeq(f, 1, Len(s)) = s

\* C26: whatever the interleaving of the UI thread, the beacon thread and
\* the poll thread, the bytes on the port's output are whole send frames
\* one after the other: from 'AT+SEND' to its CRLF the bytes of a frame are
\* contiguous, and no byte of another frame lies between them.
C26_FramesContiguous == WellFramed(Flatten(wire))

C26_Witness ==
    /\ FramesBegun(wire) = MaxFrames /\ Len(wire) = 2 * MaxFrames /\ unsent = <<>>
    /\ wire[1].bytes = AtSend0 /\ wire[2].bytes # wire[Len(wire)].bytes

\* how often sub occurs in s
Occurrences(s, sub) ==
    Cardinality({i \in 0..(Len(s) - Len(sub)) : SubSeq(s, i + 1, i + Len(sub)) = sub})

\* C27: a repeater does not rebroadcast a payload that it has rebroadcast
\* before: no line on the air carries the relay tag 'VIA<id>' of one
\* station twice.
C27_NoRepeatOfOwnRebroadcast ==
    \A s \in Stations, o \in Stations :
        \A i \in 1..Len(inbox[s]) : Occurrences(inbox[s][i], VIA \o o) <= 1

RECURSIVE Concat(_)
\* the byte strings of a list, one after the other
Concat(list) == IF list = <<>> THEN <<>> ELSE Head(list) \o Concat(Tail(list))

\* C22: what the poll path processes is the lines that arrived, each once
\* and in arrival order: the events, put end to end, are the start of the
\* arrived lines put end to end, and no event holds more than one line.
C22_EachLineOneEvent ==
    /\ StartsWith(Concat(arrived), Concat(events))
    /\ \A i \in 1..Len(events) : Occurrences(events[i], CRLF) <= 1

\* C23: bytes a timed-out read returns without their line terminator are no
\* event: every byte string handed to process_message is a terminated line.
C23_PartialIsNoEvent ==
    \A i \in 1..Len(events) : EndsWith(events[i], CRLF)

\* C28: once the quit key has set the stop signal, and with every thread
\* scheduled fairly, both threads end and the session reaches Closed with
\* the port closed, also while lines keep arriving.
C28_ShutdownTerminates ==
    stop ~> (/\ ui = "closed" /\ ~isOpen
             /\ bpc \in {"done", "dead"} /\ ppc \in {"done", "dead"})

C28_Witness ==
    /\ stop /\ ui = "closed" /\ ~isOpen /\ bpc = "done" /\ ppc = "done"
    /\ rx # <<>> /\ Head(rx).origin = "run" /\ pReadsAfter > 0

\* C31: whenever text-entry mode is inactive the pending input is empty:
\* every way of leaving the mode clears it.
C31_InactiveMeansEmpty == ~input_active => user_input = <<>>

\* the third comma-separated field of a line, empty when the line has none
PayloadField(line) ==
    IF Len(Split(line, ",")) >= 3 THEN Split(line, ",")[3] ELSE <<>>

\* C32: in the messenger a line read from the port is shown as a message
\* exactly when it contains '+RCV' and its payload field has no 'RPT';
\* every other line is skipped: nothing is shown, nothing is raised, and in
\* no case is anything written to the port.
C32_ShownIffRcvWithoutRPT ==
    (cpc = "done" /\ op = "parse_received_message") =>
        /\ wire = <<>>
        /\ result.kind \in {"message", "None"}
        /\ result.kind = "message"
              <=> (Contains(input, RCV) /\ ~HasRPT(PayloadField(input)))

\* the method called by the step that has just been taken
Called(next) == next[Len(next)]

\* C33: a new Message holds the bytes of its text; encode() on bytes and
\* decode() on text raise TypeError and leave the content as it is; every
\* other call returns and turns bytes into text or text into bytes; and the
\* bytes held are always the original bytes, the text held the original
\* text, so decode() then encode() restores the bytes.
C33_MessageAlternates ==
    /\ content = [type |-> "bytes", value |-> Encode(input)]
    /\ [](content.type = "bytes" => content.value = Encode(input))
    /\ [](content.type = "str" => content.value = input)
    /\ [][trail' # trail =>
            IF (Called(trail') = "encode") = (content.type = "bytes")
            THEN raised' = "TypeError" /\ content' = content
            ELSE raised' = "none" /\ content'.type # content.type]_vars

C33_Witness ==
    /\ trail = <<"decode", "encode", "encode">>
    /\ raised = "TypeError" /\ content = [type |-> "bytes", value |-> Encode(input)]
    /\ input = <<"A", "U+00E9">>

\* the log after one more entry has been appended to a log of max_lines
Shifted(buf, entry) ==
    Append(IF Len(buf) = max_lines THEN Tail(buf) ELSE buf, entry)

\* C34: whichever of the three threads appends, the output log never holds
\* more than max_lines entries, and every change of the log appends one entry
\* at the end, dropping the oldest entry when, and only when, the log was
\* full: the log holds the most recent entries in the order they were added.
C34_LogBounded ==
    /\ [](Len(output_buffer) <= max_lines)
    /\ [][output_buffer' # output_buffer =>
            /\ output_buffer' # <<>>
            /\ output_buffer' =
                   Shifted(output_buffer, output_buffer'[Len(output_buffer')])]_vars

C34_Witness ==
    /\ max_lines >= 2 /\ Len(output_buffer) = max_lines
    /\ sentAt # {}
    /\ output_buffer[1].kind = "Received"
    /\ output_buffer[2].kind = "New beacon text set"

====
